---------------------------- MODULE Spec2Model ----------------------------
(***************************************************************************)
(* ArbitrageHub: the market matcher (lib/matching.ts), the normalizers     *)
(* (lib/normalize.ts), the arbitrage calculator (lib/arbitrage.ts), what   *)
(* GET /api/arbitrage does with their results, the TTL cache               *)
(* (lib/cache.ts) and GET /api/markets over it.                            *)
(*                                                                         *)
(* Numbers.  The program computes on IEEE doubles; the model computes on   *)
(* exact decimals.  A price, a spread, a fee, a threshold or a similarity  *)
(* x is the integer x * Scale; a product of two such values (the total     *)
(* cost with fees, the guaranteed profit) is the integer x * Scale * Scale.*)
(* profitPercent = spread * 100 is held at Scale as well (5.0 is 5000).    *)
(*                                                                         *)
(* Optional fields.  A field that may be undefined is a sequence of length *)
(* at most one: << >> is undefined, << v >> is the value v.                *)
(***************************************************************************)
EXTENDS Integers, Sequences, FiniteSets, TLC

VARIABLES
    \* ---- matchRawMarkets (lib/matching.ts) ----
    pc,                  \* where the call stands: "start", "verify" (awaiting
                         \* a batch of verifier calls), "select", "consume",
                         \* "done" (returned), "threw" (rejected)
    polymarketMarkets,   \* argument: the platform-A raw records
    kalshiMarkets,       \* argument: the platform-B raw records
    useAI,               \* whether an OpenRouter API key is configured
    candidatePairs,      \* the candidates, sorted once generated
    aiBatchStart,        \* i of the batch loop (0-based)
    aiVerifiedSet,       \* the keys of the verified candidates
    remainingCandidates, \* the final candidate set
    ci,                  \* the position of the consumption loop (1-based)
    usedKalshi,          \* the consumed platform-B identifiers
    matched,             \* the MatchedMarket list being built
    \* history of the call, read by the properties only
    aiCalled,            \* ranks of the candidates sent to the verifier
    aiVerified,          \* ranks of the candidates the verifier verified
    accepted,            \* the candidates accepted so far, in order
    \* ---- calculateArbitrage (lib/arbitrage.ts) ----
    arbPc,          \* "ready" before the call, "done" after it
    arbMatched,     \* the MatchedMarket handed to calculateArbitrage
    arbConfig,      \* the ArbitrageConfig handed to calculateArbitrage
    opp,            \* the ArbitrageOpportunity it returned (<< >> before)
    \* ---- GET /api/arbitrage, after matching (app/api/arbitrage/route.ts) ----
    postPc,             \* "calculate", "filter", "deduplicate", "done"
    matchedMarkets,     \* what matchRawMarkets returned
    minProfitPercent,   \* the query parameter, << >> when absent
    opportunities,      \* calculateAllArbitrages(matchedMarkets, config)
    activeOpportunities,        \* the opportunities that are not resolved
    deduplicatedOpportunities,  \* the opportunities of the response
    \* ---- normalizeAllMarkets (lib/normalize.ts) ----
    normPc,             \* "polymarket", "kalshi" (the two loops), "done"
                        \* (returned), "threw" (a normalizer raised)
    rawPolymarket,      \* argument: the platform-A raw records
    rawKalshi,          \* argument: the platform-B raw records
    normIndex,          \* the position of the running loop (1-based)
    allNormalized,      \* the NormalizedMarket list being built
    result,             \* history: the platform, the position and the
                        \* outcome of the latest normalizer call
    \* ---- normalizeEventTitle, calculateSimilarity on two titles ----
    titlePc,            \* "ready", then "normalized" and "renormalized", or
                        \* "scored"
    simTitle1,          \* the first title
    simTitle2,          \* the second title
    canonical,          \* normalizeEventTitle(simTitle1), << >> before
    canonicalAgain,     \* normalizeEventTitle of that, << >> before
    similarity,         \* calculateSimilarity of the two titles in both
                        \* orders, << >> before
    \* the verification loop of matchRawMarkets, call by call
    batchPc,            \* "idle", "start", "loop", "awaiting", "done"
    batchUseAI,         \* a verifier key is configured
    candidateCount,     \* candidatePairs.length
    batchI,             \* the loop variable i of line 201
    issuedCalls,        \* ranks (1 = best) whose verifier call was issued
    pendingCalls,       \* ranks whose verifier call has not completed yet
    \* ---- TTLCache (lib/cache.ts) ----
    cacheNow,           \* Date.now()
    cacheTicks,         \* how often the clock has advanced
    cacheMap,           \* this.cache: key |-> [data, expiresAt]
    lastSet,            \* key |-> the entry of the most recent set(key) that
                        \* no clear() has followed
    cacheOp,            \* the last call on the cache, << >> before the first
    cacheResult,        \* what the last get returned: << >> is null
    \* ---- GET /api/markets (app/api/markets/route.ts) ----
    marketsRequests,    \* how many requests have arrived
    marketsInFlight,    \* the requests awaiting the two fetches
    marketsResponse,    \* the latest response, << >> before the first
    populatingBody      \* the body of the response of the request that did
                        \* the latest marketsCache.set, << >> before

matchVars ==
    << pc, polymarketMarkets, kalshiMarkets, useAI, candidatePairs,
       aiBatchStart, aiVerifiedSet, remainingCandidates, ci, usedKalshi,
       matched, aiCalled, aiVerified, accepted >>

arbVars == << arbPc, arbMatched, arbConfig, opp >>

postVars ==
    << postPc, matchedMarkets, minProfitPercent, opportunities,
       activeOpportunities, deduplicatedOpportunities >>

normVars ==
    << normPc, rawPolymarket, rawKalshi, normIndex, allNormalized,
       result >>

titleVars ==
    << titlePc, simTitle1, simTitle2, canonical, canonicalAgain, similarity >>

batchVars ==
    << batchPc, batchUseAI, candidateCount, batchI, issuedCalls, pendingCalls >>

cacheVars ==
    << cacheNow, cacheTicks, cacheMap, lastSet, cacheOp, cacheResult >>

marketsVars ==
    << marketsRequests, marketsInFlight, marketsResponse, populatingBody >>

vars ==
    << matchVars, arbVars, postVars, normVars, titleVars, batchVars, cacheVars, marketsVars >>

\* what each part of the program leaves alone
outsideMatch ==
    << arbVars, postVars, normVars, titleVars, batchVars, cacheVars, marketsVars >>
outsideArb ==
    << matchVars, postVars, normVars, titleVars, batchVars, cacheVars, marketsVars >>
outsidePost ==
    << matchVars, arbVars, normVars, titleVars, batchVars, cacheVars, marketsVars >>
outsideNorm ==
    << matchVars, arbVars, postVars, titleVars, batchVars, cacheVars, marketsVars >>
outsideTitle ==
    << matchVars, arbVars, postVars, normVars, batchVars, cacheVars, marketsVars >>
outsideBatch ==
    << matchVars, arbVars, postVars, normVars, titleVars, cacheVars, marketsVars >>
outsideCache ==
    << matchVars, arbVars, postVars, normVars, titleVars, batchVars, marketsVars >>
outsideMarkets ==
    << matchVars, arbVars, postVars, normVars, titleVars, batchVars, cacheVars >>

-----------------------------------------------------------------------------
(* Units and small helpers *)

\* one unit of the fixed-point representation: 0.001
Scale == 10 ^ 3

None == << >>
Some(v) == << v >>

\* `a ?? b` on an optional number: only undefined takes the default
OrDefault_nullish(o, d) == IF o = None THEN d ELSE o[1]

\* JavaScript `a || b` on an optional number: undefined and 0 are falsy
OrDefault(o, d) == IF o = None THEN d ELSE IF o[1] = 0 THEN d ELSE o[1]

Abs(x) == IF x < 0 THEN -x ELSE x
Min(a, b) == IF a < b THEN a ELSE b
Max(a, b) == IF a > b THEN a ELSE b

-----------------------------------------------------------------------------
(* Strings.  A string is a sequence of one-character strings, so that the  *)
(* program's character-level operations (regular expressions, includes,    *)
(* split, length) are computed and not assumed.                            *)

LOWER == << "a", "b", "c", "d", "e", "f", "g", "h", "i", "j", "k", "l", "m",
            "n", "o", "p", "q", "r", "s", "t", "u", "v", "w", "x", "y", "z" >>
UPPER == << "A", "B", "C", "D", "E", "F", "G", "H", "I", "J", "K", "L", "M",
            "N", "O", "P", "Q", "R", "S", "T", "U", "V", "W", "X", "Y", "Z" >>
DIGITS == { "0", "1", "2", "3", "4", "5", "6", "7", "8", "9" }

Range(f) == { f[i] : i \in DOMAIN f }

\* \s
IsSpace(c) == c \in { " ", "\t", "\n" }
\* \d
IsDigit(c) == c \in DIGITS
\* \w
IsWordChar(c) == c \in Range(LOWER) \cup Range(UPPER) \cup DIGITS \cup { "_" }

\* String.prototype.toLowerCase
lowerChar(c) ==
    IF c \in Range(UPPER)
    THEN LOWER[CHOOSE i \in DOMAIN UPPER : UPPER[i] = c] ELSE c
toLowerCase(s) == [ i \in 1..Len(s) |-> lowerChar(s[i]) ]

\* w occurs in s at position i (1-based)
HasAt(s, i, w) ==
    /\ i >= 1
    /\ i + Len(w) - 1 <= Len(s)
    /\ \A j \in 1..Len(w) : s[i + j - 1] = w[j]

\* String.prototype.includes
Includes_prefixOnly(s, w) == HasAt(s, 1, w)
Includes(s, w) == \E i \in 1..(Len(s) + 1) : HasAt(s, i, w)

\* the number of characters of the longest run of class-P characters of s
\* that starts at position i
RECURSIVE SpaceRun(_, _)
SpaceRun(s, i) ==
    IF i > Len(s) THEN 0
    ELSE IF IsSpace(s[i]) THEN 1 + SpaceRun(s, i + 1) ELSE 0
RECURSIVE WordRun(_, _)
WordRun(s, i) ==
    IF i > Len(s) THEN 0
    ELSE IF IsWordChar(s[i]) THEN 1 + WordRun(s, i + 1) ELSE 0
RECURSIVE DigitRun(_, _)
DigitRun(s, i) ==
    IF i > Len(s) THEN 0
    ELSE IF IsDigit(s[i]) THEN 1 + DigitRun(s, i + 1) ELSE 0

\* \b between positions i - 1 and i
WordCharAt(s, i) == i >= 1 /\ i <= Len(s) /\ IsWordChar(s[i])
WordBoundary(s, i) == WordCharAt(s, i - 1) # WordCharAt(s, i)

\* s.replace(/^(w1|w2|...)\s+/, "")
StripLeadingWord(s, ws) ==
    IF \E w \in ws : HasAt(s, 1, w) /\ SpaceRun(s, Len(w) + 1) >= 1
    THEN LET w == CHOOSE w \in ws : HasAt(s, 1, w) /\ SpaceRun(s, Len(w) + 1) >= 1
             n == Len(w) + SpaceRun(s, Len(w) + 1)
         IN  SubSeq(s, n + 1, Len(s))
    ELSE s

\* the position where /\s+(w1|w2|...)\??$/ matches in s, 0 when it does not:
\* the leftmost position from which white space, one of the words, an
\* optional question mark and the end of the string follow
SuffixMatchStart(s, ws) ==
    LET starts == { i \in 1..Len(s) :
                      /\ SpaceRun(s, i) >= 1
                      /\ \E w \in ws :
                            LET j == i + SpaceRun(s, i)
                            IN  /\ HasAt(s, j, w)
                                /\ \/ j + Len(w) = Len(s) + 1
                                   \/ /\ j + Len(w) = Len(s)
                                      /\ s[Len(s)] = "?" }
    IN  IF starts = {} THEN 0
        ELSE CHOOSE i \in starts : \A k \in starts : i <= k

\* s.replace(/\s+(w1|w2|...)\??$/, "")
StripTrailingPhrase(s, ws) ==
    IF SuffixMatchStart(s, ws) = 0 THEN s
    ELSE SubSeq(s, 1, SuffixMatchStart(s, ws) - 1)

\* the length of the match of /\b(f1|f2|...)\s+second\b/ at position i of s,
\* 0 when it does not match there
PhraseMatchLen(s, i, firsts, second) ==
    LET ok(f) == /\ HasAt(s, i, f)
                 /\ SpaceRun(s, i + Len(f)) >= 1
                 /\ HasAt(s, i + Len(f) + SpaceRun(s, i + Len(f)), second)
                 /\ WordBoundary(s, i + Len(f) + SpaceRun(s, i + Len(f))
                                      + Len(second))
    IN  IF WordBoundary(s, i) /\ \E f \in firsts : ok(f)
        THEN LET f == CHOOSE f \in firsts : ok(f)
             IN  Len(f) + SpaceRun(s, i + Len(f)) + Len(second)
        ELSE 0

\* s.replace(/\b(f1|f2|...)\s+second\b/g, repl), scanning from position i
RECURSIVE ReplacePhraseFrom(_, _, _, _, _)
ReplacePhraseFrom(s, i, firsts, second, repl) ==
    IF i > Len(s) THEN << >>
    ELSE IF PhraseMatchLen(s, i, firsts, second) > 0
    THEN repl \o ReplacePhraseFrom(s, i + PhraseMatchLen(s, i, firsts, second),
                                   firsts, second, repl)
    ELSE << s[i] >> \o ReplacePhraseFrom(s, i + 1, firsts, second, repl)

ReplacePhrase(s, firsts, second, repl) ==
    ReplacePhraseFrom(s, 1, firsts, second, repl)

\* s.replace(/[^\w\s\d]/g, " ")
ReplacePunctuation(s) ==
    [ i \in 1..Len(s) |->
        IF IsWordChar(s[i]) \/ IsSpace(s[i]) \/ IsDigit(s[i]) THEN s[i] ELSE " " ]

\* s.replace(/\s+/g, " "), scanning from position i
RECURSIVE CollapseSpacesFrom(_, _)
CollapseSpacesFrom(s, i) ==
    IF i > Len(s) THEN << >>
    ELSE IF IsSpace(s[i])
    THEN << " " >> \o CollapseSpacesFrom(s, i + SpaceRun(s, i))
    ELSE << s[i] >> \o CollapseSpacesFrom(s, i + 1)

CollapseSpaces(s) == CollapseSpacesFrom(s, 1)

\* s.replace(/\b(w1|w2|...)\b/g, ""), scanning from position i: a match is a
\* whole run of word characters that is one of the words
RECURSIVE RemoveWordsFrom(_, _, _)
RemoveWordsFrom(s, i, ws) ==
    IF i > Len(s) THEN << >>
    ELSE IF WordRun(s, i) > 0
    THEN LET n == WordRun(s, i)
             w == SubSeq(s, i, i + n - 1)
         IN  (IF w \in ws THEN << >> ELSE w) \o RemoveWordsFrom(s, i + n, ws)
    ELSE << s[i] >> \o RemoveWordsFrom(s, i + 1, ws)

RemoveWords(s, ws) == RemoveWordsFrom(s, 1, ws)

\* String.prototype.trim
RECURSIVE TrimLeft(_)
TrimLeft(s) ==
    IF s # << >> /\ IsSpace(s[1]) THEN TrimLeft(Tail(s)) ELSE s
RECURSIVE TrimRight(_)
TrimRight(s) ==
    IF s # << >> /\ IsSpace(s[Len(s)])
    THEN TrimRight(SubSeq(s, 1, Len(s) - 1)) ELSE s
Trim(s) == TrimRight(TrimLeft(s))

\* s.split(" "), scanning from position i with the current piece `cur`
RECURSIVE SplitFrom(_, _, _)
SplitFrom(s, i, cur) ==
    IF i > Len(s) THEN << cur >>
    ELSE IF s[i] = " " THEN << cur >> \o SplitFrom(s, i + 1, << >>)
    ELSE SplitFrom(s, i + 1, Append(cur, s[i]))

Split(s) == SplitFrom(s, 1, << >>)

\* s.match(/\d+/g) || [], scanning from position i
RECURSIVE DigitRunsFrom(_, _)
DigitRunsFrom(s, i) ==
    IF i > Len(s) THEN << >>
    ELSE IF DigitRun(s, i) > 0
    THEN << SubSeq(s, i, i + DigitRun(s, i) - 1) >>
            \o DigitRunsFrom(s, i + DigitRun(s, i))
    ELSE DigitRunsFrom(s, i + 1)

DigitRuns(s) == DigitRunsFrom(s, 1)

-----------------------------------------------------------------------------
(* Exact fractions: a similarity is a reduced fraction num / den, den > 0 *)

RECURSIVE GCD(_, _)
GCD(a, b) == IF b = 0 THEN a ELSE GCD(b, a % b)

Rat(n, d) ==
    LET g == GCD(Abs(n), d) IN [ num |-> n \div g, den |-> d \div g ]
RatAdd(a, b) == Rat(a.num * b.den + b.num * a.den, a.den * b.den)
RatLess(a, b) == a.num * b.den < b.num * a.den
RatGeq(a, b) == ~ RatLess(a, b)
RatMax(a, b) == IF RatLess(a, b) THEN b ELSE a
RatMin(a, b) == IF RatLess(b, a) THEN b ELSE a

-----------------------------------------------------------------------------
(* lib/normalize.ts: normalizeEventTitle *)

\* will|does|did|is|are|was|were
AUXILIARIES ==
    { << "w", "i", "l", "l" >>,
      << "d", "o", "e", "s" >>,
      << "d", "i", "d" >>,
      << "i", "s" >>,
      << "a", "r", "e" >>,
      << "w", "a", "s" >>,
      << "w", "e", "r", "e" >> }

\* happen|occur|take place|be true|be false
TRAILING_PHRASES ==
    { << "h", "a", "p", "p", "e", "n" >>,
      << "o", "c", "c", "u", "r" >>,
      << "t", "a", "k", "e", " ", "p", "l", "a", "c", "e" >>,
      << "b", "e", " ", "t", "r", "u", "e" >>,
      << "b", "e", " ", "f", "a", "l", "s", "e" >> }

\* the|a|an|and|or|but|in|on|at|to|for|of|with|by
STOP_WORDS ==
    { << "t", "h", "e" >>,
      << "a" >>,
      << "a", "n" >>,
      << "a", "n", "d" >>,
      << "o", "r" >>,
      << "b", "u", "t" >>,
      << "i", "n" >>,
      << "o", "n" >>,
      << "a", "t" >>,
      << "t", "o" >>,
      << "f", "o", "r" >>,
      << "o", "f" >>,
      << "w", "i", "t", "h" >>,
      << "b", "y" >> }

s_donald == << "d", "o", "n", "a", "l", "d" >>
s_don == << "d", "o", "n" >>
s_trump == << "t", "r", "u", "m", "p" >>
s_joe == << "j", "o", "e" >>
s_joseph == << "j", "o", "s", "e", "p", "h" >>
s_biden == << "b", "i", "d", "e", "n" >>
s_world == << "w", "o", "r", "l", "d" >>
s_cup == << "c", "u", "p" >>
s_worldcup == << "w", "o", "r", "l", "d", "c", "u", "p" >>
s_super == << "s", "u", "p", "e", "r" >>
s_bowl == << "b", "o", "w", "l" >>
s_superbowl == << "s", "u", "p", "e", "r", "b", "o", "w", "l" >>

normalizeEventTitle(title) ==
    LET lowered    == toLowerCase(title)
        noPrefix   == StripLeadingWord(lowered, AUXILIARIES)
        noSuffix   == StripTrailingPhrase(noPrefix, TRAILING_PHRASES)
        trump      == ReplacePhrase(noSuffix, { s_donald, s_don }, s_trump, s_trump)
        biden      == ReplacePhrase(trump, { s_joe, s_joseph }, s_biden, s_biden)
        worldcup   == ReplacePhrase(biden, { s_world }, s_cup, s_worldcup)
        superbowl  == ReplacePhrase(worldcup, { s_super }, s_bowl, s_superbowl)
        noPunct    == ReplacePunctuation(superbowl)
        collapsed  == CollapseSpaces(noPunct)
        noStops    == RemoveWords(collapsed, STOP_WORDS)
        collapsed2 == CollapseSpaces(noStops)
    IN  Trim(collapsed2)

-----------------------------------------------------------------------------
(* lib/matching.ts: calculateSimilarity *)

importantKeywords ==
    << << "t", "r", "u", "m", "p" >>,
       << "b", "i", "d", "e", "n" >>,
       << "b", "i", "t", "c", "o", "i", "n" >>,
       << "e", "t", "h", "e", "r", "e", "u", "m" >>,
       << "e", "l", "e", "c", "t", "i", "o", "n" >>,
       << "p", "r", "e", "s", "i", "d", "e", "n", "t" >>,
       << "w", "o", "r", "l", "d", " ", "c", "u", "p" >>,
       << "s", "u", "p", "e", "r", " ", "b", "o", "w", "l" >>,
       << "n", "f", "l" >>,
       << "n", "b", "a" >>,
       << "n", "h", "l" >>,
       << "m", "l", "b" >>,
       << "i", "n", "f", "l", "a", "t", "i", "o", "n" >>,
       << "f", "e", "d" >>,
       << "r", "a", "t", "e" >>,
       << "g", "d", "p" >>,
       << "u", "n", "e", "m", "p", "l", "o", "y", "m", "e", "n", "t" >> >>

\* the sum over the keywords from position i on, in units of 0.05:
\* +0.1 for a keyword both titles have, -0.05 for one only one has
RECURSIVE keywordSum(_, _, _)
keywordSum(lower1, lower2, i) ==
    IF i > Len(importantKeywords) THEN 0
    ELSE LET has1 == Includes(lower1, importantKeywords[i])
             has2 == Includes(lower2, importantKeywords[i])
         IN  (IF has1 /\ has2 THEN 2 ELSE IF has1 # has2 THEN -1 ELSE 0)
                + keywordSum(lower1, lower2, i + 1)

\* the words of a canonical title that are longer than 2 characters
longWords(normalized) == SelectSeq(Split(normalized), LAMBDA w : Len(w) > 2)

\* lines 50-55: intersection.size / union.size of the two word sets
jaccardOf(words1, words2) ==
    Rat(Cardinality(Range(words1) \cap Range(words2)),
        Cardinality(Range(words1) \cup Range(words2)))

\* lines 57-76: Math.max(-0.2, Math.min(0.3, keywordBonus))
keywordBonusOf(lower1, lower2) ==
    Rat(Max(-4, Min(6, keywordSum(lower1, lower2, 1))), 20)

\* lines 78-82: longer.includes(shorter) ? 0.5 : 0
charSimilarityOf(normalized1, normalized2) ==
    IF Len(normalized1) > Len(normalized2)
    THEN (IF Includes(normalized1, normalized2) THEN Rat(1, 2) ELSE Rat(0, 1))
    ELSE (IF Includes(normalized2, normalized1) THEN Rat(1, 2) ELSE Rat(0, 1))

\* lines 84-90: (commonNumbers.length / Math.max(...)) * 0.2
numberMatchOf(numbers1, numbers2) ==
    IF Len(numbers1) > 0 /\ Len(numbers2) > 0
    THEN Rat(Len(SelectSeq(numbers1, LAMBDA n : n \in Range(numbers2))) * 2,
             Max(Len(numbers1), Len(numbers2)) * 10)
    ELSE Rat(0, 1)

\* lines 92-101: the weighted sum, clamped to [0, 1]
finalScoreOf_unclamped(jaccard, charSimilarity, numberMatch, keywordBonus) ==
    RatAdd(RatAdd(RatAdd(RatAdd(
        Rat(jaccard.num, jaccard.den * 2),
        Rat(charSimilarity.num, charSimilarity.den * 10)),
        numberMatch),
        keywordBonus),
        Rat(1, 10))
finalScoreOf(jaccard, charSimilarity, numberMatch, keywordBonus) ==
    RatMax(Rat(0, 1), RatMin(Rat(1, 1),
        RatAdd(RatAdd(RatAdd(RatAdd(
            Rat(jaccard.num, jaccard.den * 2),
            Rat(charSimilarity.num, charSimilarity.den * 10)),
            numberMatch),
            keywordBonus),
            Rat(1, 10))))

\* the weighted sum for every pair, a Jaccard term of 0 when a title has no
\* word longer than 2 characters
wordSimilarity_noEarlyReturn(normalized1, normalized2, words1, words2) ==
    finalScoreOf(IF Len(words1) = 0 \/ Len(words2) = 0 THEN Rat(0, 1)
                 ELSE jaccardOf(words1, words2),
                 charSimilarityOf(normalized1, normalized2),
                 numberMatchOf(DigitRuns(normalized1), DigitRuns(normalized2)),
                 keywordBonusOf(toLowerCase(normalized1),
                                toLowerCase(normalized2)))

\* lines 41-101: two canonical titles neither of which contains the other
wordSimilarity(normalized1, normalized2, words1, words2) ==
    IF Len(words1) = 0 \/ Len(words2) = 0 THEN Rat(0, 1)
    ELSE finalScoreOf(jaccardOf(words1, words2),
                      charSimilarityOf(normalized1, normalized2),
                      numberMatchOf(DigitRuns(normalized1), DigitRuns(normalized2)),
                      keywordBonusOf(toLowerCase(normalized1),
                                     toLowerCase(normalized2)))

\* lines 28-101, on the two canonical titles
similarityOf_exactAsContained(normalized1, normalized2) ==
    IF normalized1 = normalized2 THEN Rat(9, 10)
    ELSE IF Includes(normalized1, normalized2) \/ Includes(normalized2, normalized1)
    THEN Rat(7 * Max(Len(normalized1), Len(normalized2))
               + 2 * Min(Len(normalized1), Len(normalized2)),
             10 * Max(Len(normalized1), Len(normalized2)))
    ELSE wordSimilarity(normalized1, normalized2,
                        longWords(normalized1), longWords(normalized2))
\* containment counted only between two non-empty canonical titles
similarityOf_nonEmptyContainment(normalized1, normalized2) ==
    IF normalized1 = normalized2 THEN Rat(1, 1)
    ELSE IF /\ Len(normalized1) > 0
            /\ Len(normalized2) > 0
            /\ Includes(normalized1, normalized2) \/ Includes(normalized2, normalized1)
    THEN Rat(7 * Max(Len(normalized1), Len(normalized2))
               + 2 * Min(Len(normalized1), Len(normalized2)),
             10 * Max(Len(normalized1), Len(normalized2)))
    ELSE wordSimilarity(normalized1, normalized2,
                        longWords(normalized1), longWords(normalized2))
similarityOf(normalized1, normalized2) ==
    IF normalized1 = normalized2 THEN Rat(1, 1)
    ELSE IF Includes(normalized1, normalized2) \/ Includes(normalized2, normalized1)
    THEN \* 0.7 + (shorter / longer) * 0.2
         Rat(7 * Max(Len(normalized1), Len(normalized2))
               + 2 * Min(Len(normalized1), Len(normalized2)),
             10 * Max(Len(normalized1), Len(normalized2)))
    ELSE wordSimilarity(normalized1, normalized2,
                        longWords(normalized1), longWords(normalized2))

calculateSimilarity(title1, title2) ==
    similarityOf(normalizeEventTitle(title1), normalizeEventTitle(title2))

-----------------------------------------------------------------------------
(* lib/api/polymarket.ts: normalizeOutcome; lib/normalize.ts: the two      *)
(* normalizers.                                                            *)
(*                                                                         *)
(* A JavaScript number is << n >> (n at Scale) or << >> for NaN.  A JSON   *)
(* value is a record tagged by k: "string" (s), "number" (n), "null",      *)
(* "array" (items) or "object" (title: an optional string).  A raw field   *)
(* that may hold a JSON text, an array or nothing is tagged by t:          *)
(* "undefined", "array" (items) or "string" (ok: whether JSON.parse        *)
(* succeeds, value: what it returns).                                      *)
(* The normalized record keeps platform, marketId, eventTitle, outcome and *)
(* price; liquidity, closesAt and the URL fields are copied through by the *)
(* program and read by nothing modelled here.                              *)

NaN == << >>

\* String.prototype.toUpperCase
upperChar(c) ==
    IF c \in Range(LOWER)
    THEN UPPER[CHOOSE i \in DOMAIN LOWER : LOWER[i] = c] ELSE c
toUpperCase(s) == [ i \in 1..Len(s) |-> upperChar(s[i]) ]

\* "YES" | "NO" | null (<< >>)
normalizeOutcome(outcome) ==
    LET upper == toUpperCase(outcome)
    IN  IF Includes(upper, << "Y", "E", "S" >>) \/ upper = << "T", "R", "U", "E" >> \/ upper = << "1" >>
        THEN Some("YES")
        ELSE IF Includes(upper, << "N", "O" >>) \/ upper = << "F", "A", "L", "S", "E" >> \/ upper = << "0" >>
        THEN Some("NO")
        ELSE None

digitValue(c) ==
    CASE c = "0" -> 0 [] c = "1" -> 1 [] c = "2" -> 2 [] c = "3" -> 3
      [] c = "4" -> 4 [] c = "5" -> 5 [] c = "6" -> 6 [] c = "7" -> 7
      [] c = "8" -> 8 [] c = "9" -> 9

\* the value of the digits s[i .. i + n - 1] read as an integer
RECURSIVE digitsValue(_, _, _)
digitsValue(s, i, n) ==
    IF n = 0 THEN 0
    ELSE digitsValue(s, i, n - 1) * 10 + digitValue(s[i + n - 1])

\* the value at Scale of the fraction digits s[i .. i + n - 1]; digits past
\* the third are below the model's resolution
fractionValue(s, i, n) ==
    LET d(k) == IF k <= n THEN digitValue(s[i + k - 1]) ELSE 0
    IN  d(1) * 100 + d(2) * 10 + d(3)

\* parseFloat on a string: leading white space, an optional sign, digits,
\* an optional fraction; NaN when no number starts the string.  (Exponents
\* and Infinity are not modelled: no modelled input carries them.)
parseFloat(str) ==
    LET s      == TrimLeft(str)
        signed == s # << >> /\ s[1] \in { "-", "+" }
        sign   == IF s # << >> /\ s[1] = "-" THEN -1 ELSE 1
        i0     == IF signed THEN 2 ELSE 1
        nInt   == DigitRun(s, i0)
        hasDot == i0 + nInt <= Len(s) /\ s[i0 + nInt] = "."
        nFrac  == IF hasDot THEN DigitRun(s, i0 + nInt + 1) ELSE 0
    IN  IF nInt = 0 /\ nFrac = 0 THEN NaN
        ELSE Some(sign * (digitsValue(s, i0, nInt) * Scale
                            + fractionValue(s, i0 + nInt + 1, nFrac)))

\* parseFloat(String(p)) for a JSON string or number p
parseFloatOfValue(p) ==
    CASE p.k = "string" -> parseFloat(p.s)
      [] p.k = "number" -> Some(p.n)
      [] OTHER -> NaN

\* isNaN(price) || price < 0 || price > 1
invalidPrice_exclusive(price) ==
    price = NaN \/ price[1] <= 0 \/ price[1] >= Scale
invalidPrice(price) ==
    price = NaN \/ price[1] < 0 \/ price[1] > Scale

\* the result of a normalizer: the list it returns, or threw = TRUE when it
\* raises a TypeError
Returned(list) == [ threw |-> FALSE, list |-> list ]
Threw == [ threw |-> TRUE, list |-> << >> ]

\* outcomesArray after lines 503-520: ok = FALSE is the early `return
\* normalized`, threw = TRUE a TypeError.  labels is what the loop of line
\* 541 indexes: a sequence of JSON values.
polyOutcomesArray(market) ==
    LET o == market.outcomes
        early == [ ok |-> FALSE, threw |-> FALSE, labels |-> << >> ]
        raise == [ ok |-> FALSE, threw |-> TRUE, labels |-> << >> ]
        have(l) == [ ok |-> TRUE, threw |-> FALSE, labels |-> l ]
        str(cs) == [ k |-> "string", s |-> cs ]
    IN  IF o.t = "string"
        THEN IF ~ o.ok THEN early
             ELSE CASE o.value.k = "array"  -> have(o.value.items)
                    \* a JSON string: indexed character by character
                    [] o.value.k = "string" ->
                         have([ i \in 1..Len(o.value.s) |-> str(<< o.value.s[i] >>) ])
                    \* null.length
                    [] o.value.k = "null"   -> raise
                    \* a number or an object has no length: no iteration
                    [] OTHER -> have(<< >>)
        ELSE IF o.t = "array"
        THEN IF \E i \in DOMAIN o.items : o.items[i].k = "null" THEN raise
             ELSE have([ i \in DOMAIN o.items |->
                          IF o.items[i].k = "string" THEN o.items[i]
                          ELSE IF o.items[i].k = "object" /\ o.items[i].title # None
                          THEN str(o.items[i].title[1])
                          ELSE str(<< >>) ])
        ELSE early

\* pricesArray after lines 527-538: ok = FALSE is the early return of the
\* catch block (JSON.parse failed, or the parsed value has no map method)
polyPricesArray(market) ==
    LET p == market.outcomePrices
    IN  IF p.t = "string"
        THEN IF p.ok /\ p.value.k = "array"
             THEN [ ok |-> TRUE,
                    prices |-> [ i \in DOMAIN p.value.items |->
                                   parseFloatOfValue(p.value.items[i]) ] ]
             ELSE [ ok |-> FALSE, prices |-> << >> ]
        ELSE IF p.t = "array"
        THEN [ ok |-> TRUE,
               prices |-> [ i \in DOMAIN p.items |-> parseFloatOfValue(p.items[i]) ] ]
        ELSE [ ok |-> TRUE, prices |-> << >> ]

\* the price of outcome i (lines 551-564): << price >>, or << >> when the
\* outcome has no price (`continue`)
polyPriceAt(market, pricesArray, i) ==
    IF Len(pricesArray) > i - 1 THEN Some(pricesArray[i])
    ELSE IF market.last_price_dollars # None /\ market.last_price_dollars[1] # << >>
    THEN Some(parseFloat(market.last_price_dollars[1]))
    ELSE IF market.last_price # None THEN Some(market.last_price)
    ELSE None

\* the loop of lines 541-611 from outcome i on
RECURSIVE polyLoop(_, _, _, _)
polyLoop(market, labels, pricesArray, i) ==
    IF i > Len(labels) THEN Returned(<< >>)
    ELSE IF labels[i].k # "string" THEN Threw  \* outcome.toUpperCase
    ELSE LET outcome == normalizeOutcome(labels[i].s)
             priceAt == polyPriceAt(market, pricesArray, i)
             rest    == polyLoop(market, labels, pricesArray, i + 1)
         IN  IF outcome = None \/ priceAt = None \/ invalidPrice(priceAt[1])
             THEN rest
             ELSE IF rest.threw THEN Threw
             ELSE Returned(<< [ platform   |-> "polymarket",
                                marketId   |-> market.id,
                                eventTitle |-> market.question,
                                outcome    |-> outcome[1],
                                price      |-> priceAt[1][1] ] >> \o rest.list)

normalizePolymarketMarket(market) ==
    IF market.question = << >> THEN Returned(<< >>)
    ELSE LET outcomesArray == polyOutcomesArray(market)
             pricesArray   == polyPricesArray(market)
         IN  IF outcomesArray.threw THEN Threw
             ELSE IF ~ outcomesArray.ok THEN Returned(<< >>)
             ELSE IF Len(outcomesArray.labels) = 0 THEN Returned(<< >>)
             ELSE IF ~ pricesArray.ok THEN Returned(<< >>)
             ELSE polyLoop(market, outcomesArray.labels, pricesArray.prices, 1)

\* a string field is truthy when it is present and not empty
Truthy(field) == field # None /\ field[1] # << >>

\* yesPrice (lines 627-648): << price >> (price a number or NaN), or << >>
\* when the record has no price data
kalshiYesPrice(market) ==
    LET mid(a, b) == IF a = NaN \/ b = NaN THEN NaN ELSE Some((a[1] + b[1]) \div 2)
    IN  IF Truthy(market.yes_bid_dollars) /\ Truthy(market.yes_ask_dollars)
        THEN Some(mid(parseFloat(market.yes_bid_dollars[1]),
                      parseFloat(market.yes_ask_dollars[1])))
        ELSE IF Truthy(market.yes_ask_dollars)
        THEN Some(parseFloat(market.yes_ask_dollars[1]))
        ELSE IF Truthy(market.yes_bid_dollars)
        THEN Some(parseFloat(market.yes_bid_dollars[1]))
        ELSE IF market.yes_bid # None /\ market.yes_ask # None
        \* cents: (bid + ask) / 2 / 100
        THEN Some(Some((market.yes_bid[1] + market.yes_ask[1]) * 5))
        ELSE IF Truthy(market.last_price_dollars)
        THEN Some(parseFloat(market.last_price_dollars[1]))
        ELSE IF market.last_price # None
        THEN Some(Some(market.last_price[1] * 10))
        ELSE None

\* ticker || event_ticker || ""
kalshiIdOf_eventFirst(market) ==
    IF market.event_ticker # None /\ market.event_ticker[1] # ""
    THEN market.event_ticker[1]
    ELSE IF market.ticker # None /\ market.ticker[1] # ""
    THEN market.ticker[1]
    ELSE ""
kalshiIdOf(market) ==
    IF market.ticker # None /\ market.ticker[1] # "" THEN market.ticker[1]
    ELSE IF market.event_ticker # None /\ market.event_ticker[1] # ""
    THEN market.event_ticker[1]
    ELSE ""

\* a side is emitted when its price is strictly inside (0, 1)
insideOpenUnit_positive(price) == price # NaN /\ price[1] > 0
insideOpenUnit(price) == price # NaN /\ price[1] > 0 /\ price[1] < Scale

normalizeKalshiMarket(market) ==
    LET yes == kalshiYesPrice(market)
    IN  IF yes = None THEN Returned(<< >>)
        ELSE
        LET yesPrice   == yes[1]
            noPrice    == IF yesPrice = NaN THEN NaN ELSE Some(Scale - yesPrice[1])
            eventTitle == IF market.event_title = None THEN << >>
                          ELSE market.event_title[1]
            marketId   == kalshiIdOf(market)
            side(o, price) ==
                IF insideOpenUnit(price)
                THEN << [ platform   |-> "kalshi",
                          marketId   |-> marketId,
                          eventTitle |-> eventTitle,
                          outcome    |-> o,
                          price      |-> price[1] ] >>
                ELSE << >>
        IN  IF eventTitle = << >> THEN Returned(<< >>)
            ELSE Returned(side("YES", yesPrice) \o side("NO", noPrice))

-----------------------------------------------------------------------------
(* The raw records matchRawMarkets is run on *)

\* "Will Trump win 2024?"
T_WillTrumpWin2024 ==
    << "W", "i", "l", "l", " ", "T", "r", "u", "m", "p", " ", "w", "i", "n",
       " ", "2", "0", "2", "4", "?" >>

\* "Trump win 2024"
T_TrumpWin2024 ==
    << "T", "r", "u", "m", "p", " ", "w", "i", "n", " ", "2", "0", "2", "4" >>

\* "Will Biden win 2024?"
T_WillBidenWin2024 ==
    << "W", "i", "l", "l", " ", "B", "i", "d", "e", "n", " ", "w", "i", "n",
       " ", "2", "0", "2", "4", "?" >>

\* "Bitcoin price"
T_BitcoinPrice ==
    << "B", "i", "t", "c", "o", "i", "n", " ", "p", "r", "i", "c", "e" >>

\* "Bitcoin price 2024"
T_BitcoinPrice2024 ==
    << "B", "i", "t", "c", "o", "i", "n", " ", "p", "r", "i", "c", "e", " ",
       "2", "0", "2", "4" >>

\* "Bitcoin price crash"
T_BitcoinPriceCrash ==
    << "B", "i", "t", "c", "o", "i", "n", " ", "p", "r", "i", "c", "e", " ",
       "c", "r", "a", "s", "h" >>

\* "Yes"
T_Yes ==
    << "Y", "e", "s" >>

\* "No"
T_No ==
    << "N", "o" >>

\* "0.40"
T_0_40 ==
    << "0", ".", "4", "0" >>

\* "0.60"
T_0_60 ==
    << "0", ".", "6", "0" >>

\* "0.65"
T_0_65 ==
    << "0", ".", "6", "5" >>

\* "0.35"
T_0_35 ==
    << "0", ".", "3", "5" >>

\* "0.44"
T_0_44 ==
    << "0", ".", "4", "4" >>

\* "0.46"
T_0_46 ==
    << "0", ".", "4", "6" >>

\* "0.50"
T_0_50 ==
    << "0", ".", "5", "0" >>

jsonString(cs) == [ k |-> "string", s |-> cs ]
jsonNumber(n) == [ k |-> "number", n |-> n ]
jsonArray(items) == [ k |-> "array", items |-> items ]
fieldUndefined == [ t |-> "undefined" ]
fieldArray(items) == [ t |-> "array", items |-> items ]
fieldJSON(value) == [ t |-> "string", ok |-> TRUE, value |-> value ]
fieldBadJSON == [ t |-> "string", ok |-> FALSE ]

\* platform-A records: labels and prices as arrays, as JSON texts, a record
\* without a question, one with a single side priced by last_price at the
\* boundary 1, and one whose JSON label list holds a number
PolyPool ==
    << [ id |-> "p1", question |-> T_WillTrumpWin2024,
         outcomes |-> fieldArray(<< jsonString(T_Yes), jsonString(T_No) >>),
         outcomePrices |-> fieldArray(<< jsonNumber(400), jsonNumber(600) >>),
         last_price_dollars |-> None, last_price |-> None ],
       [ id |-> "p2", question |-> T_BitcoinPrice,
         outcomes |-> fieldJSON(jsonArray(<< jsonString(T_Yes), jsonString(T_No) >>)),
         outcomePrices |->
             fieldJSON(jsonArray(<< jsonString(T_0_65), jsonString(T_0_35) >>)),
         last_price_dollars |-> None, last_price |-> None ],
       [ id |-> "p3", question |-> << >>,
         outcomes |-> fieldArray(<< jsonString(T_Yes), jsonString(T_No) >>),
         outcomePrices |-> fieldArray(<< jsonNumber(400), jsonNumber(600) >>),
         last_price_dollars |-> None, last_price |-> None ],
       [ id |-> "p4", question |-> T_TrumpWin2024,
         outcomes |-> fieldArray(<< jsonString(T_Yes) >>),
         outcomePrices |-> fieldUndefined,
         last_price_dollars |-> None, last_price |-> Some(Scale) ],
       [ id |-> "p5", question |-> T_BitcoinPrice2024,
         outcomes |-> fieldJSON(jsonArray(<< jsonNumber(1), jsonNumber(0) >>)),
         outcomePrices |-> fieldArray(<< jsonNumber(500), jsonNumber(500) >>),
         last_price_dollars |-> None, last_price |-> None ] >>

\* platform-B records: two that share the identifier "E1" through the
\* event_ticker fallback, one with a ticker and a last price of 100 cents
\* (no side strictly inside (0, 1)), one with no identifier at all, and one
\* without a title
KalshiPool ==
    << [ ticker |-> None, event_ticker |-> Some("E1"),
         event_title |-> Some(T_WillBidenWin2024),
         yes_bid_dollars |-> Some(T_0_44), yes_ask_dollars |-> Some(T_0_46),
         yes_bid |-> None, yes_ask |-> None,
         last_price_dollars |-> None, last_price |-> None ],
       [ ticker |-> None, event_ticker |-> Some("E1"),
         event_title |-> Some(T_TrumpWin2024),
         yes_bid_dollars |-> None, yes_ask_dollars |-> None,
         yes_bid |-> Some(57), yes_ask |-> Some(59),
         last_price_dollars |-> None, last_price |-> None ],
       [ ticker |-> Some("K3"), event_ticker |-> Some("E1"),
         event_title |-> Some(T_BitcoinPriceCrash),
         yes_bid_dollars |-> None, yes_ask_dollars |-> None,
         yes_bid |-> None, yes_ask |-> None,
         last_price_dollars |-> None, last_price |-> Some(100) ],
       [ ticker |-> None, event_ticker |-> None,
         event_title |-> Some(T_BitcoinPrice2024),
         yes_bid_dollars |-> None, yes_ask_dollars |-> None,
         yes_bid |-> None, yes_ask |-> None,
         last_price_dollars |-> Some(T_0_50), last_price |-> None ],
       [ ticker |-> Some("K5"), event_ticker |-> None,
         event_title |-> None,
         yes_bid_dollars |-> None, yes_ask_dollars |-> Some(T_0_50),
         yes_bid |-> None, yes_ask |-> None,
         last_price_dollars |-> None, last_price |-> None ] >>

\* "Nobody"
T_Nobody ==
    << "N", "o", "b", "o", "d", "y" >>

\* "Up"
T_Up ==
    << "U", "p" >>

\* "Down"
T_Down ==
    << "D", "o", "w", "n" >>

\* platform-A records of markets that are not binary: three labels of which
\* two map to NO, and two labels that map to no side; and a binary one
MultiOutcomePolyPool ==
    << [ id |-> "p6", question |-> T_WillBidenWin2024,
         outcomes |-> fieldArray(<< jsonString(T_Yes), jsonString(T_No),
                                    jsonString(T_Nobody) >>),
         outcomePrices |->
             fieldArray(<< jsonNumber(400), jsonNumber(350), jsonNumber(250) >>),
         last_price_dollars |-> None, last_price |-> None ],
       [ id |-> "p7", question |-> T_TrumpWin2024,
         outcomes |-> fieldArray(<< jsonString(T_Up), jsonString(T_Down) >>),
         outcomePrices |-> fieldArray(<< jsonNumber(400), jsonNumber(600) >>),
         last_price_dollars |-> None, last_price |-> None ],
       PolyPool[1] >>

\* the longest list of platform-A and of platform-B records
MaxPoly == 2
MaxKalshi == 2

\* the lists of at most n different records of a pool, in any order
ListsOf(pool, n) ==
    { [ i \in 1..Len(ix) |-> pool[ix[i]] ] :
        ix \in { q \in UNION { [1..k -> DOMAIN pool] : k \in 0..n } :
                   \A a, b \in DOMAIN q : a # b => q[a] # q[b] } }

-----------------------------------------------------------------------------
(* lib/matching.ts: matchRawMarkets *)

AI_CANDIDATE_CAP == 100
AI_BATCH_SIZE == 10

\* the similarity thresholds: 0.25 (candidate floor), 0.4 (no verifier)
CANDIDATE_FLOOR == Rat(1, 4)
BASIC_THRESHOLD_half == Rat(1, 2)
BASIC_THRESHOLD == Rat(2, 5)

\* `${polyMarket.id}-${kalshiMarket.ticker || kalshiMarket.event_ticker}`
keyOf(polyMarket, kalshiMarket) ==
    polyMarket.id \o "-" \o
        (IF kalshiMarket.ticker # None /\ kalshiMarket.ticker[1] # ""
         THEN kalshiMarket.ticker[1]
         ELSE IF kalshiMarket.event_ticker # None
         THEN kalshiMarket.event_ticker[1]
         ELSE "undefined")

kalshiTitleOf(kalshiMarket) ==
    IF kalshiMarket.event_title = None THEN << >> ELSE kalshiMarket.event_title[1]

\* line 146, calculateSimilarity(polyMarket.question, kalshiMarket.event_title),
\* tabulated on the titles of the two pools: each pair of titles is computed
\* once, by calculateSimilarity
similarityTable ==
    [ t \in { << market.question, kalshiTitleOf(KalshiPool[b]) >> :
                market \in Range(PolyPool) \cup Range(MultiOutcomePolyPool),
                b \in DOMAIN KalshiPool }
        |-> calculateSimilarity(t[1], t[2]) ]

basicSimilarityOf(polyMarket, kalshiMarket) ==
    similarityTable[<< polyMarket.question, kalshiTitleOf(kalshiMarket) >>]

\* normalizePolymarketMarket and normalizeKalshiMarket on the records of the
\* pools, computed once
polymarketOutcomesTable ==
    [ market \in Range(PolyPool) \cup Range(MultiOutcomePolyPool)
        |-> normalizePolymarketMarket(market) ]
kalshiOutcomesTable ==
    [ market \in Range(KalshiPool) |-> normalizeKalshiMarket(market) ]

normalizedPolymarketOf(market) == polymarketOutcomesTable[market]
normalizedKalshiOf(market) == kalshiOutcomesTable[market]

\* the candidate of records pi and ki (their positions in the two lists,
\* which stand for the identity of the two objects)
candidateOf(polys, kalshis, pi, ki) ==
    [ pi |-> pi, ki |-> ki,
      basicSimilarity |-> basicSimilarityOf(polys[pi], kalshis[ki]) ]

\* the two objects a candidate refers to: its polyMarket and its
\* kalshiMarket fields
polyMarketOf(candidate) == polymarketMarkets[candidate.pi]
kalshiMarketOf(candidate) == kalshiMarkets[candidate.ki]

\* whether the pair passes lines 128-149
isCandidate_noFloor(polys, kalshis, pi, ki) ==
    /\ polys[pi].question # << >>
    /\ kalshiTitleOf(kalshis[ki]) # << >>
isCandidate(polys, kalshis, pi, ki) ==
    /\ polys[pi].question # << >>
    /\ kalshiTitleOf(kalshis[ki]) # << >>
    \* usedKalshi is still empty here: line 140 never skips
    /\ RatGeq(basicSimilarityOf(polys[pi], kalshis[ki]), CANDIDATE_FLOOR)

\* the nested loops of lines 127-157, from pair number n on (pairs are
\* numbered platform-A record by platform-A record)
RECURSIVE generateFrom(_, _, _)
generateFrom(polys, kalshis, n) ==
    IF n > Len(polys) * Len(kalshis) THEN << >>
    ELSE LET pi == ((n - 1) \div Len(kalshis)) + 1
             ki == ((n - 1) % Len(kalshis)) + 1
         IN  (IF isCandidate(polys, kalshis, pi, ki)
              THEN << candidateOf(polys, kalshis, pi, ki) >> ELSE << >>)
                 \o generateFrom(polys, kalshis, n + 1)

\* Array.prototype.sort((a, b) => b.basicSimilarity - a.basicSimilarity):
\* stable, best first
RECURSIVE insertSorted(_, _)
insertSorted(sorted, c) ==
    IF sorted = << >> THEN << c >>
    ELSE IF RatLess(Head(sorted).basicSimilarity, c.basicSimilarity)
    THEN << c >> \o sorted
    ELSE << Head(sorted) >> \o insertSorted(Tail(sorted), c)
sortBySimilarity_unsorted(cs) == cs
RECURSIVE sortBySimilarity(_)
sortBySimilarity(cs) ==
    IF cs = << >> THEN << >>
    ELSE insertSorted(sortBySimilarity(SubSeq(cs, 1, Len(cs) - 1)), cs[Len(cs)])

\* aiResult.match && aiResult.confidence >= 0.7
aiAccepts_anyConfidence(aiResult) == aiResult.match
aiAccepts_noMatchFlag(aiResult) ==
    aiResult.confidence # NaN /\ aiResult.confidence[1] >= 700
aiAccepts(aiResult) ==
    aiResult.match /\ aiResult.confidence # NaN /\ aiResult.confidence[1] >= 700

\* what matchMarketsWithAI resolves to when the call fails: no API key, an
\* HTTP error, an empty or unparseable answer, a rejected fetch (it catches
\* every error and never rejects)
aiFailure == [ match |-> FALSE, confidence |-> Some(0) ]

\* what matchMarketsWithAI can answer: match, and a confidence in [0, 1]
AIResults ==
    { [ match |-> TRUE,  confidence |-> Some(700) ],
      [ match |-> TRUE,  confidence |-> Some(699) ],
      [ match |-> FALSE, confidence |-> Some(900) ],
      aiFailure }

\* the answers of one batch of calls (lines 203-207): any two answers of
\* AIResults, spread over the calls of the batch in any way.  What the batch
\* adds to the verified set depends only on which of its calls are accepted.
batchResults(batch) ==
    { [ r \in batch |-> IF r \in V THEN a ELSE b ] :
        V \in SUBSET batch, a \in AIResults, b \in AIResults }

\* lines 230-235
selectRemaining_alwaysThreshold(candidates, ai, verifiedKeys) ==
    SelectSeq(candidates, LAMBDA c : RatGeq(c.basicSimilarity, BASIC_THRESHOLD))
selectRemaining_verifiedOnly(candidates, ai, verifiedKeys) ==
    SelectSeq(candidates,
              LAMBDA c : keyOf(polyMarketOf(c), kalshiMarketOf(c))
                             \in verifiedKeys)
selectRemaining_unionThreshold(candidates, ai, verifiedKeys) ==
    SelectSeq(candidates,
              LAMBDA c : \/ keyOf(polyMarketOf(c), kalshiMarketOf(c))
                                \in verifiedKeys
                         \/ RatGeq(c.basicSimilarity, BASIC_THRESHOLD))
selectRemaining(candidates, ai, verifiedKeys) ==
    IF ai /\ verifiedKeys # {}
    THEN SelectSeq(candidates,
                   LAMBDA c : keyOf(polyMarketOf(c), kalshiMarketOf(c))
                             \in verifiedKeys)
    ELSE SelectSeq(candidates, LAMBDA c : RatGeq(c.basicSimilarity, BASIC_THRESHOLD))

\* lines 287-300: the pairs of outcomes of the same side, platform-A outcome
\* by platform-A outcome
sameOutcome_any(polyOutcome, kalshiOutcome) == TRUE
sameOutcome(polyOutcome, kalshiOutcome) ==
    polyOutcome.outcome = kalshiOutcome.outcome

RECURSIVE expandFrom(_, _, _, _)
expandFrom(question, polyOutcomes, kalshiOutcomes, n) ==
    IF n > Len(polyOutcomes) * Len(kalshiOutcomes) THEN << >>
    ELSE LET a == ((n - 1) \div Len(kalshiOutcomes)) + 1
             b == ((n - 1) % Len(kalshiOutcomes)) + 1
         IN  (IF sameOutcome(polyOutcomes[a], kalshiOutcomes[b])
              THEN << [ eventTitle |-> question,
                        polymarket |-> polyOutcomes[a],
                        kalshi     |-> kalshiOutcomes[b] ] >>
              ELSE << >>)
                 \o expandFrom(question, polyOutcomes, kalshiOutcomes, n + 1)

-----------------------------------------------------------------------------
(* One call of matchRawMarkets *)

\* the state of the part of the program a specification does not run
MatchIdle ==
    /\ pc = "idle"
    /\ polymarketMarkets = << >>
    /\ kalshiMarkets = << >>
    /\ useAI = FALSE
    /\ candidatePairs = << >>
    /\ aiBatchStart = 0
    /\ aiVerifiedSet = {}
    /\ remainingCandidates = << >>
    /\ ci = 1
    /\ usedKalshi = {}
    /\ matched = << >>
    /\ aiCalled = {}
    /\ aiVerified = {}
    /\ accepted = << >>

ArbIdle ==
    /\ arbPc = "idle"
    /\ arbMatched = None
    /\ arbConfig = None
    /\ opp = None

PostIdle ==
    /\ postPc = "idle"
    /\ matchedMarkets = << >>
    /\ minProfitPercent = None
    /\ opportunities = << >>
    /\ activeOpportunities = << >>
    /\ deduplicatedOpportunities = << >>

NormIdle ==
    /\ normPc = "idle"
    /\ rawPolymarket = << >>
    /\ rawKalshi = << >>
    /\ normIndex = 1
    /\ allNormalized = << >>
    /\ result = None

TitleIdle ==
    /\ titlePc = "idle"
    /\ simTitle1 = << >>
    /\ simTitle2 = << >>
    /\ canonical = None
    /\ canonicalAgain = None
    /\ similarity = None

BatchIdle ==
    /\ batchPc = "idle"
    /\ batchUseAI = FALSE
    /\ candidateCount = 0
    /\ batchI = 0
    /\ issuedCalls = {}
    /\ pendingCalls = {}

CacheIdle ==
    /\ cacheNow = 0
    /\ cacheTicks = 0
    /\ cacheMap = << >>
    /\ lastSet = << >>
    /\ cacheOp = << >>
    /\ cacheResult = << >>

MarketsIdle ==
    /\ marketsRequests = 0
    /\ marketsInFlight = {}
    /\ marketsResponse = << >>
    /\ populatingBody = << >>

MatchInit ==
    /\ pc = "start"
    /\ polymarketMarkets \in ListsOf(PolyPool, MaxPoly)
    /\ kalshiMarkets \in ListsOf(KalshiPool, MaxKalshi)
    /\ useAI \in BOOLEAN
    /\ candidatePairs = << >>
    /\ aiBatchStart = 0
    /\ aiVerifiedSet = {}
    /\ remainingCandidates = << >>
    /\ ci = 1
    /\ usedKalshi = {}
    /\ matched = << >>
    /\ aiCalled = {}
    /\ aiVerified = {}
    /\ accepted = << >>
    /\ ArbIdle
    /\ PostIdle
    /\ NormIdle
    /\ TitleIdle
    /\ BatchIdle
    /\ CacheIdle
    /\ MarketsIdle

\* candidatePairs itself: every candidate goes to the verifier
aiCandidatesOf_uncapped(candidates, ai) ==
    IF ai THEN candidates ELSE << >>

\* candidatePairs.slice(0, 100) when a verifier is configured
aiCandidatesOf(candidates, ai) ==
    IF ai THEN SubSeq(candidates, 1, Min(Len(candidates), AI_CANDIDATE_CAP))
    ELSE << >>

\* lines 113-197: generate the candidates, sort them, pick the ones to verify
GenerateCandidates ==
    /\ pc = "start"
    /\ candidatePairs' =
           sortBySimilarity(generateFrom(polymarketMarkets, kalshiMarkets, 1))
    /\ pc' = IF useAI /\ Len(aiCandidatesOf(candidatePairs', useAI)) > 0
             THEN "verify" ELSE "select"
    /\ UNCHANGED << polymarketMarkets, kalshiMarkets, useAI, aiBatchStart,
                    aiVerifiedSet, remainingCandidates, ci, usedKalshi, matched,
                    aiCalled, aiVerified, accepted >>
    /\ UNCHANGED outsideMatch

\* lines 201-224: one batch of verifier calls, awaited together; each call
\* answers as the verifier pleases
VerifyBatch ==
    /\ pc = "verify"
    /\ LET aiCandidates == aiCandidatesOf(candidatePairs, useAI)
           batch == (aiBatchStart + 1) ..
                        Min(aiBatchStart + AI_BATCH_SIZE, Len(aiCandidates))
       IN  \E aiResults \in batchResults(batch) :
             LET verified == { r \in batch : aiAccepts(aiResults[r]) }
             IN  /\ aiVerifiedSet' = aiVerifiedSet \cup
                        { keyOf(polyMarketOf(aiCandidates[r]),
                                kalshiMarketOf(aiCandidates[r])) : r \in verified }
                 /\ aiCalled' = aiCalled \cup batch
                 /\ aiVerified' = aiVerified \cup verified
                 /\ aiBatchStart' = aiBatchStart + AI_BATCH_SIZE
                 /\ pc' = IF aiBatchStart + AI_BATCH_SIZE < Len(aiCandidates)
                          THEN "verify" ELSE "select"
    /\ UNCHANGED << polymarketMarkets, kalshiMarkets, useAI, candidatePairs,
                    remainingCandidates, ci, usedKalshi, matched, accepted >>
    /\ UNCHANGED outsideMatch

\* lines 229-239: the final candidate set
SelectRemaining ==
    /\ pc = "select"
    /\ remainingCandidates' = selectRemaining(candidatePairs, useAI, aiVerifiedSet)
    /\ ci' = 1
    /\ pc' = IF Len(remainingCandidates') > 0 THEN "consume" ELSE "done"
    /\ UNCHANGED << polymarketMarkets, kalshiMarkets, useAI, candidatePairs,
                    aiBatchStart, aiVerifiedSet, usedKalshi, matched,
                    aiCalled, aiVerified, accepted >>
    /\ UNCHANGED outsideMatch

\* useAI && aiVerifiedSet.size > 0 ? 0.0 : 0.4
thresholdOf(ai, verifiedKeys) ==
    IF ai /\ verifiedKeys # {} THEN Rat(0, 1) ELSE BASIC_THRESHOLD

\* lines 242-253: whether the loop skips the candidate
skipsCandidate_noUsedCheck(candidate, used, ai, verifiedKeys) ==
    /\ ~ (ai /\ keyOf(polyMarketOf(candidate), kalshiMarketOf(candidate))
                      \in verifiedKeys)
    /\ RatLess(candidate.basicSimilarity, thresholdOf(ai, verifiedKeys))
skipsCandidate(candidate, used, ai, verifiedKeys) ==
    \/ kalshiIdOf(kalshiMarketOf(candidate)) \in used
    \/ /\ ~ (ai /\ keyOf(polyMarketOf(candidate), kalshiMarketOf(candidate))
                      \in verifiedKeys)
       /\ RatLess(candidate.basicSimilarity, thresholdOf(ai, verifiedKeys))

\* line 308: usedKalshi.add(kalshiId)
consume_nothing(used, kalshiMarket) == used
consume(used, kalshiMarket) == used \cup { kalshiIdOf(kalshiMarket) }

\* lines 241-309: one iteration of the consumption loop
ProcessCandidate ==
    /\ pc = "consume"
    /\ LET candidate == remainingCandidates[ci]
           polyOutcomes == normalizedPolymarketOf(polyMarketOf(candidate))
           kalshiOutcomes == normalizedKalshiOf(kalshiMarketOf(candidate))
           next == IF ci + 1 > Len(remainingCandidates) THEN "done" ELSE "consume"
       IN  IF skipsCandidate(candidate, usedKalshi, useAI, aiVerifiedSet)
           THEN /\ pc' = next
                /\ ci' = ci + 1
                /\ UNCHANGED << usedKalshi, matched, accepted >>
           ELSE IF polyOutcomes.threw \/ kalshiOutcomes.threw
           THEN \* the TypeError leaves matchRawMarkets: the call rejects
                /\ pc' = "threw"
                /\ UNCHANGED << ci, usedKalshi, matched, accepted >>
           ELSE /\ matched' = matched \o
                       expandFrom(polyMarketOf(candidate).question,
                                  polyOutcomes.list, kalshiOutcomes.list, 1)
                /\ usedKalshi' = consume(usedKalshi, kalshiMarketOf(candidate))
                /\ accepted' = Append(accepted, candidate)
                /\ pc' = next
                /\ ci' = ci + 1
    /\ UNCHANGED << polymarketMarkets, kalshiMarkets, useAI, candidatePairs,
                    aiBatchStart, aiVerifiedSet, remainingCandidates,
                    aiCalled, aiVerified >>
    /\ UNCHANGED outsideMatch

MatchNext ==
    \/ GenerateCandidates
    \/ VerifyBatch
    \/ SelectRemaining
    \/ ProcessCandidate

SpecMatch == MatchInit /\ [][MatchNext]_vars

\* one call of matchRawMarkets on platform-A records of markets that are not
\* binary
MultiOutcomeInit ==
    /\ pc = "start"
    /\ polymarketMarkets \in ListsOf(MultiOutcomePolyPool, MaxPoly)
    /\ kalshiMarkets \in ListsOf(KalshiPool, MaxKalshi)
    /\ useAI \in BOOLEAN
    /\ candidatePairs = << >>
    /\ aiBatchStart = 0
    /\ aiVerifiedSet = {}
    /\ remainingCandidates = << >>
    /\ ci = 1
    /\ usedKalshi = {}
    /\ matched = << >>
    /\ aiCalled = {}
    /\ aiVerified = {}
    /\ accepted = << >>
    /\ ArbIdle
    /\ PostIdle
    /\ NormIdle
    /\ TitleIdle
    /\ BatchIdle
    /\ CacheIdle
    /\ MarketsIdle

SpecMultiOutcome == MultiOutcomeInit /\ [][MatchNext]_vars

-----------------------------------------------------------------------------
(* Properties of one call of matchRawMarkets *)

\* the call has chosen its final candidate set
Selected == pc \in { "consume", "done", "threw" }

acceptedId(a) == kalshiIdOf(kalshiMarketOf(accepted[a]))
acceptedSimilarity(a) ==
    basicSimilarityOf(polyMarketOf(accepted[a]), kalshiMarketOf(accepted[a]))

\* the entries of list at the positions in S, in the order of the list
subsequenceAt(list, S) ==
    [ a \in 1..Cardinality(S \cap DOMAIN list) |->
        list[CHOOSE i \in S \cap DOMAIN list :
                Cardinality({ j \in S \cap DOMAIN list : j < i }) = a - 1] ]

\* C1: in one call no platform-B identifier (ticker, else event_ticker, else
\* the empty string) belongs to two accepted pairs: the accepted pairs have
\* pairwise distinct platform-B identifiers, whatever the inputs and the
\* verifier's answers.
C1_DistinctIdentifiers ==
    \A a, b \in DOMAIN accepted : a # b => acceptedId(a) # acceptedId(b)

\* a finished call that accepted a pair and skipped a later candidate of the
\* final set because its platform-B identifier was already consumed
C1_Witness ==
    /\ pc = "done"
    /\ \E r \in DOMAIN remainingCandidates :
          /\ remainingCandidates[r] \notin Range(accepted)
          /\ ~ RatLess(remainingCandidates[r].basicSimilarity, BASIC_THRESHOLD)
          /\ \E a \in DOMAIN accepted :
                /\ acceptedId(a) = kalshiIdOf(kalshiMarketOf(remainingCandidates[r]))
                /\ accepted[a].ki # remainingCandidates[r].ki

\* C2, as the claim states it: no platform-A record appears in two accepted
\* pairs with different platform-B identifiers.
C2_Original ==
    \A a, b \in DOMAIN accepted :
        accepted[a].pi = accepted[b].pi => acceptedId(a) = acceptedId(b)

\* C2, amended: only the platform-B side is exclusive.  A platform-A record
\* may be accepted with several platform-B records; its accepted pairs are
\* with different platform-B records of pairwise different identifiers, so
\* it has at most as many accepted pairs as the platform-B list has
\* identifiers.
C2_OnePairPerIdentifier ==
    \A p \in DOMAIN polymarketMarkets :
        LET mine == { a \in DOMAIN accepted : accepted[a].pi = p }
        IN  /\ \A a, b \in mine :
                  a # b => /\ accepted[a].ki # accepted[b].ki
                           /\ acceptedId(a) # acceptedId(b)
            /\ Cardinality(mine) <=
                  Cardinality({ kalshiIdOf(kalshiMarkets[k]) :
                                  k \in DOMAIN kalshiMarkets })

\* a finished call in which one platform-A record was accepted with two
\* platform-B records
C2_Witness ==
    /\ pc = "done"
    /\ \E a, b \in DOMAIN accepted :
          /\ a # b
          /\ accepted[a].pi = accepted[b].pi
          /\ accepted[a].ki # accepted[b].ki

\* a pair of records of the call, both with a title, whose similarity is
\* below 0.25
belowFloor(p, k) ==
    /\ polymarketMarkets[p].question # << >>
    /\ kalshiTitleOf(kalshiMarkets[k]) # << >>
    /\ RatLess(basicSimilarityOf(polymarketMarkets[p], kalshiMarkets[k]),
               Rat(1, 4))

\* C3: a pair of records whose title similarity is below 0.25 is never
\* accepted, with or without a verifier and whatever the verifier answers,
\* and it is never sent to the verifier.
C3_FloorNeverCrossed ==
    \A p \in DOMAIN polymarketMarkets, k \in DOMAIN kalshiMarkets :
        belowFloor(p, k) =>
            /\ \A a \in DOMAIN accepted :
                  ~ (accepted[a].pi = p /\ accepted[a].ki = k)
            /\ \A r \in aiCalled :
                  ~ (candidatePairs[r].pi = p /\ candidatePairs[r].ki = k)

\* a finished call with a verifier that was sent candidates and verified
\* some, on inputs that hold a pair below the floor, and that accepted a pair
C3_Witness ==
    /\ pc = "done"
    /\ useAI
    /\ aiVerified # {}
    /\ accepted # << >>
    /\ \E p \in DOMAIN polymarketMarkets, k \in DOMAIN kalshiMarkets :
          belowFloor(p, k)

\* the candidates of the inputs with similarity >= 0.4, best first
thresholdCandidates ==
    SelectSeq(sortBySimilarity(generateFrom(polymarketMarkets, kalshiMarkets, 1)),
              LAMBDA c : ~ RatLess(basicSimilarityOf(polyMarketOf(c),
                                                     kalshiMarketOf(c)),
                                   Rat(2, 5)))

\* the positions of a list of candidates that hold the first candidate of
\* their platform-B identifier
firstOfIdentifier(list) ==
    { i \in DOMAIN list :
        \A j \in 1..(i - 1) :
            kalshiIdOf(kalshiMarketOf(list[j]))
                # kalshiIdOf(kalshiMarketOf(list[i])) }

\* the MatchedMarket list of a list of accepted candidates, from position a on
RECURSIVE expandAll(_, _)
expandAll(list, a) ==
    IF a > Len(list) THEN << >>
    ELSE expandFrom(polyMarketOf(list[a]).question,
                    normalizedPolymarketOf(polyMarketOf(list[a])).list,
                    normalizedKalshiOf(kalshiMarketOf(list[a])).list, 1)
            \o expandAll(list, a + 1)

\* C4: with no verifier, or with a verifier that verifies no candidate, the
\* final candidate set is exactly the candidates with similarity >= 0.4, so
\* no pair with similarity in [0.25, 0.4) is accepted; and the outcome of the
\* call is the same function of the two input lists in both cases: it
\* accepts the first candidate of each platform-B identifier among those
\* candidates, and returns their MatchedMarkets, or it throws.
C4_FallbackThreshold ==
    (Selected /\ (~ useAI \/ aiVerified = {})) =>
        /\ remainingCandidates = thresholdCandidates
        /\ \A a \in DOMAIN accepted :
              ~ RatLess(acceptedSimilarity(a), Rat(2, 5))
        /\ pc = "done" =>
              /\ accepted = subsequenceAt(thresholdCandidates,
                                          firstOfIdentifier(thresholdCandidates))
              /\ matched = expandAll(accepted, 1)
        /\ pc \in { "done", "threw" } =>
              (pc = "threw" <=>
                  \E i \in firstOfIdentifier(thresholdCandidates) :
                      normalizedPolymarketOf(
                          polyMarketOf(thresholdCandidates[i])).threw)

\* a finished call with a verifier that was asked and verified nothing, on
\* inputs with a candidate in [0.25, 0.4) and an accepted pair
C4_Witness ==
    /\ pc = "done"
    /\ useAI
    /\ aiCalled # {}
    /\ aiVerified = {}
    /\ accepted # << >>
    /\ \E r \in DOMAIN candidatePairs :
          RatLess(candidatePairs[r].basicSimilarity, Rat(2, 5))

\* C5: with a verifier that verified at least one candidate (match = true
\* and confidence >= 0.7), the final candidate set is exactly the verified
\* candidates: an unverified candidate is never accepted whatever its
\* similarity, and a verified candidate is not rejected for a similarity
\* below 0.4 (it is accepted, or its platform-B identifier is consumed).
C5_VerifiedExactly ==
    (Selected /\ useAI /\ aiVerified # {}) =>
        /\ remainingCandidates = subsequenceAt(candidatePairs, aiVerified)
        /\ \A a \in DOMAIN accepted :
              \E r \in aiVerified : candidatePairs[r] = accepted[a]
        /\ pc = "done" =>
              \A r \in aiVerified :
                  kalshiIdOf(kalshiMarketOf(candidatePairs[r])) \in usedKalshi

\* C6: every MatchedMarket pairs outcomes of the same side, and its two
\* outcomes are the normalizations of the two records of one accepted pair.
C6_SameSideSamePair ==
    \A m \in DOMAIN matched :
        /\ matched[m].polymarket.outcome = matched[m].kalshi.outcome
        /\ \E a \in DOMAIN accepted :
              /\ matched[m].polymarket \in
                     Range(normalizedPolymarketOf(polyMarketOf(accepted[a])).list)
              /\ matched[m].kalshi \in
                     Range(normalizedKalshiOf(kalshiMarketOf(accepted[a])).list)
              /\ matched[m].eventTitle = polyMarketOf(accepted[a]).question

\* a finished call that accepted two pairs and returned MatchedMarkets of
\* both sides, from records that each normalize to two outcomes
C6_Witness ==
    /\ pc = "done"
    /\ Len(accepted) >= 2
    /\ \E m, n \in DOMAIN matched :
          /\ matched[m].polymarket.outcome = "YES"
          /\ matched[n].polymarket.outcome = "NO"
          /\ matched[m].polymarket.marketId = matched[n].polymarket.marketId

-----------------------------------------------------------------------------
(* lib/arbitrage.ts *)

\* defaults with a transaction fee of 10%
DEFAULT_CONFIG_highFee ==
    [ minProfitPercent       |-> Some(5 * Scale),
      minTrueArbitrageProfit |-> Some(10),
      transactionFee         |-> Some(100) ]

DEFAULT_CONFIG ==
    [ minProfitPercent       |-> Some(5 * Scale),
      minTrueArbitrageProfit |-> Some(10),
      transactionFee         |-> Some(10) ]

RESOLVED_THRESHOLD == 5

\* polyResolved / kalshiResolved: price <= 0.005 || price >= 1 - 0.005
sideResolved_strict(price) ==
    price < RESOLVED_THRESHOLD \/ price > Scale - RESOLVED_THRESHOLD
sideResolved(price) ==
    price <= RESOLVED_THRESHOLD \/ price >= Scale - RESOLVED_THRESHOLD

\* outcome === "YES" ? price : 1 - price
yesPriceOf(m) == IF m.outcome = "YES" THEN m.price ELSE Scale - m.price
\* outcome === "NO" ? price : 1 - price
noPriceOf(m) == IF m.outcome = "NO" THEN m.price ELSE Scale - m.price

\* totalCost = min(polyYES, kalshiYES) + min(polyNO, kalshiNO)
totalCostOf_max(polymarket, kalshi) ==
    Max(yesPriceOf(polymarket), yesPriceOf(kalshi))
        + Max(noPriceOf(polymarket), noPriceOf(kalshi))
totalCostOf(polymarket, kalshi) ==
    Min(yesPriceOf(polymarket), yesPriceOf(kalshi))
        + Min(noPriceOf(polymarket), noPriceOf(kalshi))

\* spread = kalshi.price - polymarket.price
spreadOf_swapped(polymarket, kalshi) == polymarket.price - kalshi.price
spreadOf(polymarket, kalshi) == kalshi.price - polymarket.price

\* isTrueArbitrage ? "true" : isSpreadArbitrage ? "spread" : undefined
arbitrageTypeOf_spreadFirst(isTrueArbitrage, isSpreadArbitrage) ==
    IF isSpreadArbitrage THEN Some("spread")
    ELSE IF isTrueArbitrage THEN Some("true") ELSE None
arbitrageTypeOf(isTrueArbitrage, isSpreadArbitrage) ==
    IF isTrueArbitrage THEN Some("true")
    ELSE IF isSpreadArbitrage THEN Some("spread") ELSE None

calculateArbitrage(matchedMarket, config) ==
    LET polymarket == matchedMarket.polymarket
        kalshi     == matchedMarket.kalshi
        polyResolved   == sideResolved(polymarket.price)
        kalshiResolved == sideResolved(kalshi.price)
        isResolved     == polyResolved \/ kalshiResolved
        spread         == spreadOf(polymarket, kalshi)
        profitPercent  == spread * 100
        totalCost      == totalCostOf(polymarket, kalshi)
        fee == OrDefault(config.transactionFee, DEFAULT_CONFIG.transactionFee[1])
        totalCostWithFees == totalCost * (Scale + fee)
        guaranteedProfit ==
            IF totalCostWithFees < Scale * Scale
            THEN Scale * Scale - totalCostWithFees ELSE 0
        minProfit ==
            OrDefault(config.minProfitPercent, DEFAULT_CONFIG.minProfitPercent[1])
        minTrueArbitrage ==
            OrDefault(config.minTrueArbitrageProfit,
                      DEFAULT_CONFIG.minTrueArbitrageProfit[1])
        isTrueArbitrage ==
            /\ totalCostWithFees < Scale * Scale
            /\ guaranteedProfit >= minTrueArbitrage * Scale
        isSpreadArbitrage == Abs(profitPercent) >= minProfit
        arbitrage == isTrueArbitrage \/ isSpreadArbitrage
    IN  IF isResolved
        THEN [ event              |-> matchedMarket.eventTitle,
               outcome            |-> polymarket.outcome,
               polymarketPrice    |-> polymarket.price,
               kalshiPrice        |-> kalshi.price,
               spread             |-> kalshi.price - polymarket.price,
               profitPercent      |-> (kalshi.price - polymarket.price) * 100,
               arbitrage          |-> FALSE,
               polymarketMarketId |-> polymarket.marketId,
               kalshiMarketId     |-> kalshi.marketId,
               isResolved         |-> Some(TRUE),
               totalCost          |-> None,
               guaranteedProfit   |-> None,
               arbitrageType      |-> None ]
        ELSE [ event              |-> matchedMarket.eventTitle,
               outcome            |-> polymarket.outcome,
               polymarketPrice    |-> polymarket.price,
               kalshiPrice        |-> kalshi.price,
               spread             |-> spread,
               profitPercent      |-> profitPercent,
               arbitrage          |-> arbitrage,
               polymarketMarketId |-> polymarket.marketId,
               kalshiMarketId     |-> kalshi.marketId,
               isResolved         |-> Some(FALSE),
               totalCost          |-> Some(totalCostWithFees),
               guaranteedProfit   |-> Some(guaranteedProfit),
               arbitrageType      |->
                   arbitrageTypeOf(isTrueArbitrage, isSpreadArbitrage) ]

-----------------------------------------------------------------------------
(* The calculator applied to one matched outcome pair *)

\* prices around the resolved band, the prices of the documented scenarios,
\* and interior prices
ArbPrices ==
    { 0, 3, 5, 6, 400, 450, 500, 550, 580, 650, 940, 950, 994, 995, 997, Scale }

ConfigValues(positive) == { None, Some(0) } \cup { Some(v) : v \in positive }

ArbConfigs ==
    [ minProfitPercent       : ConfigValues({ 5 * Scale, 7 * Scale, 10 * Scale }),
      minTrueArbitrageProfit : ConfigValues({ 10, 100 }),
      transactionFee         : ConfigValues({ 10, 50 }) ]

\* a MatchedMarket: both sides carry the same outcome (matching.ts:291)
ArbMatchedMarkets ==
    { [ eventTitle |-> "E",
        polymarket |-> [ platform |-> "polymarket", marketId |-> "P1",
                         outcome |-> o, price |-> p ],
        kalshi     |-> [ platform |-> "kalshi", marketId |-> "K1",
                         outcome |-> o, price |-> k ] ]
      : o \in { "YES", "NO" }, p \in ArbPrices, k \in ArbPrices }

ArbInit ==
    /\ MatchIdle
    /\ PostIdle
    /\ NormIdle
    /\ TitleIdle
    /\ BatchIdle
    /\ CacheIdle
    /\ MarketsIdle
    /\ arbPc = "ready"
    /\ arbMatched \in ArbMatchedMarkets
    /\ arbConfig \in ArbConfigs
    /\ opp = None

CalculateArbitrage ==
    /\ arbPc = "ready"
    /\ opp' = Some(calculateArbitrage(arbMatched, arbConfig))
    /\ arbPc' = "done"
    /\ UNCHANGED << arbMatched, arbConfig >>
    /\ UNCHANGED outsideArb

ArbNext == CalculateArbitrage

SpecArb == ArbInit /\ [][ArbNext]_vars


-----------------------------------------------------------------------------
(* Claims about calculateArbitrage, checked under SpecArb *)

ArbDone == arbPc = "done"
ArbP == arbMatched.polymarket.price
ArbK == arbMatched.kalshi.price
ArbOutcome == arbMatched.polymarket.outcome

\* the configuration in force: a field that is absent or 0 takes its default
EffMinProfitPercent ==
    IF arbConfig.minProfitPercent \in { None, Some(0) }
    THEN 5 * Scale ELSE arbConfig.minProfitPercent[1]
EffMinTrueArbitrageProfit ==
    IF arbConfig.minTrueArbitrageProfit \in { None, Some(0) }
    THEN 10 ELSE arbConfig.minTrueArbitrageProfit[1]
EffTransactionFee ==
    IF arbConfig.transactionFee \in { None, Some(0) }
    THEN 10 ELSE arbConfig.transactionFee[1]

InResolvedBand(x) == x <= 5 \/ x >= 995

\* C7: calculateArbitrage marks a pair resolved exactly when at least one of
\* the two prices is <= 0.005 or >= 0.995; a resolved opportunity has
\* isResolved = true, arbitrage = false, spread = priceB - priceA,
\* profitPercent = spread * 100 and no totalCost, guaranteedProfit or
\* arbitrageType; every other opportunity has isResolved = false.
C7_ResolvedExactlyInBand ==
    ArbDone =>
        LET resolved == InResolvedBand(ArbP) \/ InResolvedBand(ArbK)
        IN  /\ opp[1].isResolved = Some(resolved)
            /\ resolved =>
                  /\ opp[1].arbitrage = FALSE
                  /\ opp[1].spread = ArbK - ArbP
                  /\ opp[1].profitPercent = (ArbK - ArbP) * 100
                  /\ opp[1].totalCost = None
                  /\ opp[1].guaranteedProfit = None
                  /\ opp[1].arbitrageType = None

\* the resolved-band scenario: priceA = 0.003, priceB = 0.997; and a price
\* exactly on the band's edge
C7_Witness ==
    /\ ArbDone
    /\ \/ ArbP = 3 /\ ArbK = 997
       \/ ArbP = 5 /\ ArbK = 500
    /\ opp[1].isResolved = Some(TRUE)
    /\ opp[1].arbitrage = FALSE

\* C8: for every unresolved pair: isTrueArbitrage = (totalCostWithFees < 1.0
\* and guaranteedProfit >= minTrueArbitrageProfit), isSpreadArbitrage =
\* (|profitPercent| >= minProfitPercent), arbitrage = their disjunction,
\* arbitrageType = "true" if isTrueArbitrage, else "spread" if
\* isSpreadArbitrage, else none; guaranteedProfit = max(0, 1 - totalCost *
\* (1 + fee)), totalCost = min YES price + min NO price across the platforms.
\* The thresholds and the fee are the ones in force.
C8_Classification ==
    (ArbDone /\ opp[1].isResolved = Some(FALSE)) =>
        LET polyYES   == IF ArbOutcome = "YES" THEN ArbP ELSE Scale - ArbP
            polyNO    == Scale - polyYES
            kalshiYES == IF ArbOutcome = "YES" THEN ArbK ELSE Scale - ArbK
            kalshiNO  == Scale - kalshiYES
            totalCost == Min(polyYES, kalshiYES) + Min(polyNO, kalshiNO)
            withFees  == totalCost * (Scale + EffTransactionFee)
            profit    == Max(0, Scale * Scale - withFees)
            isTrue    == /\ withFees < Scale * Scale
                         /\ profit >= EffMinTrueArbitrageProfit * Scale
            isSpread  == Abs(opp[1].profitPercent) >= EffMinProfitPercent
        IN  /\ opp[1].profitPercent = (ArbK - ArbP) * 100
            /\ opp[1].guaranteedProfit = Some(profit)
            /\ opp[1].arbitrage = (isTrue \/ isSpread)
            /\ opp[1].arbitrageType =
                  IF isTrue THEN Some("true")
                  ELSE IF isSpread THEN Some("spread") ELSE None

\* an unresolved pair that is a spread arbitrage and no true arbitrage
C8_Witness ==
    /\ ArbDone
    /\ opp[1].isResolved = Some(FALSE)
    /\ opp[1].arbitrage
    /\ opp[1].arbitrageType = Some("spread")
    /\ opp[1].guaranteedProfit # Some(0)

\* the spread-arbitrage scenario: platform A 0.65, platform B 0.58,
\* minProfitPercent = 5.0, the rest of the configuration at its defaults
SpreadScenario ==
    /\ ArbDone
    /\ ArbP = 650 /\ ArbK = 580
    /\ arbConfig.minProfitPercent = Some(5 * Scale)
    /\ arbConfig.minTrueArbitrageProfit = None
    /\ arbConfig.transactionFee = None

TrueScenarioYES == ArbOutcome = "YES" /\ ArbP = 400 /\ ArbK = 450
TrueScenarioNO == ArbOutcome = "NO" /\ ArbP = 550 /\ ArbK = 500
TrueScenario ==
    /\ ArbDone
    /\ TrueScenarioYES \/ TrueScenarioNO
    /\ arbConfig = [ minProfitPercent |-> None,
                     minTrueArbitrageProfit |-> None,
                     transactionFee |-> None ]

\* C10 as stated: the calculator uses minYES = 0.40 and minNO = 0.50,
\* totalCost = 0.90, totalCostWithFees = 0.909, guaranteedProfit = 0.091 and
\* arbitrageType = "true".
C10_Original ==
    TrueScenario =>
        /\ opp[1].totalCost = Some(909000)
        /\ opp[1].guaranteedProfit = Some(91000)
        /\ opp[1].arbitrageType = Some("true")

\* C10 amended: the calculator takes one outcome pair and derives the other
\* side of each platform as 1 - price.  For the YES pair (0.40, 0.45) it
\* uses minYES = 0.40 and minNO = 0.55, for the NO pair (0.55, 0.50)
\* minYES = 0.45 and minNO = 0.50; in both totalCost = 0.95,
\* totalCostWithFees = 0.9595 at fee 0.01, guaranteedProfit = 0.0405 and
\* arbitrageType = "true".
C10_TrueScenarioDerivedSides ==
    TrueScenario =>
        LET minYES == Min(yesPriceOf(arbMatched.polymarket),
                          yesPriceOf(arbMatched.kalshi))
            minNO  == Min(noPriceOf(arbMatched.polymarket),
                          noPriceOf(arbMatched.kalshi))
        IN  /\ TrueScenarioYES => minYES = 400 /\ minNO = 550
            /\ TrueScenarioNO => minYES = 450 /\ minNO = 500
            /\ totalCostOf(arbMatched.polymarket, arbMatched.kalshi) = 950
            /\ opp[1].totalCost = Some(959500)
            /\ opp[1].guaranteedProfit = Some(40500)
            /\ opp[1].arbitrageType = Some("true")

C10_Witness ==
    /\ TrueScenario
    /\ TrueScenarioYES
    /\ opp[1].guaranteedProfit = Some(40500)

-----------------------------------------------------------------------------
(* app/api/arbitrage/route.ts: GET /api/arbitrage, from the matched markets *)
(* to the opportunities of the response                                     *)

\* line 65: the route's own RESOLVED_THRESHOLD, 0.005
ROUTE_RESOLVED_THRESHOLD == 5

\* lines 58-60: { minProfitPercent: minProfitPercent || 5.0 }
routeConfig(minProfit) ==
    [ minProfitPercent       |-> Some(OrDefault(minProfit, 5 * Scale)),
      minTrueArbitrageProfit |-> None,
      transactionFee         |-> None ]

\* calculateAllArbitrages: matchedMarkets.map(calculateArbitrage)
calculateAllArbitrages(list, config) ==
    [ i \in 1..Len(list) |-> calculateArbitrage(list[i], config) ]

\* lines 66-75: the filter's predicate
isActive_all(o) == TRUE
isActive(o) ==
    IF o.isResolved # None THEN ~ o.isResolved[1]
    ELSE /\ ~ (\/ o.polymarketPrice <= ROUTE_RESOLVED_THRESHOLD
               \/ o.polymarketPrice >= Scale - ROUTE_RESOLVED_THRESHOLD)
         /\ ~ (\/ o.kalshiPrice <= ROUTE_RESOLVED_THRESHOLD
               \/ o.kalshiPrice >= Scale - ROUTE_RESOLVED_THRESHOLD)

\* line 81: `${opp.polymarketMarketId}-${opp.outcome}`
dedupKey(o) == o.polymarketMarketId \o "-" \o o.outcome

\* line 83: whether opp takes the place of the entry the map holds
replaces_smaller(o, existing) == Abs(o.profitPercent) < Abs(existing.profitPercent)
replaces(o, existing) == Abs(o.profitPercent) > Abs(existing.profitPercent)

\* lines 79-87: the Map, as the list of its values in insertion order, after
\* the opportunities from position i on
RECURSIVE deduplicateFrom(_, _, _)
deduplicateFrom(active, i, values) ==
    IF i > Len(active) THEN values
    ELSE IF \E v \in DOMAIN values : dedupKey(values[v]) = dedupKey(active[i])
    THEN deduplicateFrom(active, i + 1,
             [ v \in DOMAIN values |->
                 IF /\ dedupKey(values[v]) = dedupKey(active[i])
                    /\ replaces(active[i], values[v])
                 THEN active[i] ELSE values[v] ])
    ELSE deduplicateFrom(active, i + 1, Append(values, active[i]))

\* a MatchedMarket as matchRawMarkets builds it
matchedMarketOf(polyId, kalshiId, outcome, polyPrice, kalshiPrice) ==
    [ eventTitle |-> "E",
      polymarket |-> [ platform |-> "polymarket", marketId |-> polyId,
                       outcome |-> outcome, price |-> polyPrice ],
      kalshi     |-> [ platform |-> "kalshi", marketId |-> kalshiId,
                       outcome |-> outcome, price |-> kalshiPrice ] ]

\* the matched markets the route is run on: a platform-A market matched with
\* several platform-B records, equal and different |profitPercent|, and
\* prices inside, on and outside the resolved band
PostPool ==
    << matchedMarketOf("p1", "K1", "YES", 400, 450),
       matchedMarketOf("p1", "K2", "YES", 400, 350),
       matchedMarketOf("p1", "K3", "YES", 400, 550),
       matchedMarketOf("p1", "K1", "NO", 600, 550),
       matchedMarketOf("p2", "K4", "YES", 3, 450),
       matchedMarketOf("p2", "K5", "YES", 500, 995),
       matchedMarketOf("p2", "K6", "YES", 500, 994),
       matchedMarketOf("p2", "K6", "NO", 500, 6) >>

MaxMatched == 3

PostInit ==
    /\ postPc = "calculate"
    /\ matchedMarkets \in ListsOf(PostPool, MaxMatched)
    /\ minProfitPercent \in { None, Some(0), Some(7 * Scale) }
    /\ opportunities = << >>
    /\ activeOpportunities = << >>
    /\ deduplicatedOpportunities = << >>
    /\ MatchIdle
    /\ ArbIdle
    /\ NormIdle
    /\ TitleIdle
    /\ BatchIdle
    /\ CacheIdle
    /\ MarketsIdle

\* lines 58-61
CalculateAll ==
    /\ postPc = "calculate"
    /\ opportunities' =
           calculateAllArbitrages(matchedMarkets, routeConfig(minProfitPercent))
    /\ postPc' = "filter"
    /\ UNCHANGED << matchedMarkets, minProfitPercent, activeOpportunities,
                    deduplicatedOpportunities >>
    /\ UNCHANGED outsidePost

\* lines 63-75
FilterResolved ==
    /\ postPc = "filter"
    /\ activeOpportunities' = SelectSeq(opportunities, isActive)
    /\ postPc' = "deduplicate"
    /\ UNCHANGED << matchedMarkets, minProfitPercent, opportunities,
                    deduplicatedOpportunities >>
    /\ UNCHANGED outsidePost

\* lines 77-87
Deduplicate ==
    /\ postPc = "deduplicate"
    /\ deduplicatedOpportunities' = deduplicateFrom(activeOpportunities, 1, << >>)
    /\ postPc' = "done"
    /\ UNCHANGED << matchedMarkets, minProfitPercent, opportunities,
                    activeOpportunities >>
    /\ UNCHANGED outsidePost

PostNext ==
    \/ CalculateAll
    \/ FilterResolved
    \/ Deduplicate

SpecPost == PostInit /\ [][PostNext]_vars

-----------------------------------------------------------------------------
(* Properties of the route's post-processing, checked under SpecPost *)

\* C11: the opportunities of the response hold no resolved opportunity: each
\* has isResolved = false or, when it has no flag, both prices strictly
\* inside (0.005, 0.995).
C11_NoResolvedReturned ==
    /\ \A i \in DOMAIN deduplicatedOpportunities :
          LET o == deduplicatedOpportunities[i]
          IN  IF o.isResolved # None THEN o.isResolved = Some(FALSE)
              ELSE /\ o.polymarketPrice > 5 /\ o.polymarketPrice < 995
                   /\ o.kalshiPrice > 5 /\ o.kalshiPrice < 995
    \* calculateArbitrage always sets the flag; the same opportunities
    \* without it are kept by the filter exactly on their prices
    /\ \A i \in DOMAIN opportunities :
          LET o == [ opportunities[i] EXCEPT !.isResolved = None ]
          IN  isActive(o) <=>
                  /\ o.polymarketPrice > 5 /\ o.polymarketPrice < 995
                  /\ o.kalshiPrice > 5 /\ o.kalshiPrice < 995

\* a finished request whose matched markets held a resolved one and an
\* unresolved one, which is returned
C11_Witness ==
    /\ postPc = "done"
    /\ \E i \in DOMAIN opportunities : opportunities[i].isResolved = Some(TRUE)
    /\ deduplicatedOpportunities # << >>

\* C12: for each (platform-A marketId, outcome) key among the unresolved
\* opportunities the response holds exactly one opportunity, one of the
\* unresolved opportunities of that key with the largest |profitPercent|;
\* no two opportunities of the response share a key.
C12_OneBestPerKey ==
    postPc = "done" =>
        /\ \A a \in DOMAIN activeOpportunities :
              \E d \in DOMAIN deduplicatedOpportunities :
                  /\ deduplicatedOpportunities[d].polymarketMarketId
                         = activeOpportunities[a].polymarketMarketId
                  /\ deduplicatedOpportunities[d].outcome
                         = activeOpportunities[a].outcome
                  /\ Abs(deduplicatedOpportunities[d].profitPercent)
                         >= Abs(activeOpportunities[a].profitPercent)
        /\ \A d \in DOMAIN deduplicatedOpportunities :
              \E a \in DOMAIN activeOpportunities :
                  deduplicatedOpportunities[d] = activeOpportunities[a]
        /\ \A d, e \in DOMAIN deduplicatedOpportunities :
              d # e =>
                  \/ deduplicatedOpportunities[d].polymarketMarketId
                         # deduplicatedOpportunities[e].polymarketMarketId
                  \/ deduplicatedOpportunities[d].outcome
                         # deduplicatedOpportunities[e].outcome

\* a finished request in which a later unresolved opportunity took the place
\* of an earlier one of the same key, and another key was present
C12_Witness ==
    /\ postPc = "done"
    /\ Len(deduplicatedOpportunities) >= 2
    /\ \E a, b \in DOMAIN activeOpportunities :
          /\ a < b
          /\ activeOpportunities[a].polymarketMarketId
                 = activeOpportunities[b].polymarketMarketId
          /\ activeOpportunities[a].outcome = activeOpportunities[b].outcome
          /\ Abs(activeOpportunities[a].profitPercent)
                 < Abs(activeOpportunities[b].profitPercent)

-----------------------------------------------------------------------------
(* lib/normalize.ts: normalizeAllMarkets *)

T_0 == << "0" >>
T_1 == << "1" >>
T_abc == << "a", "b", "c" >>

polyRecord(id, outcomes, outcomePrices, last_price_dollars) ==
    [ id |-> id, question |-> T_TrumpWin2024,
      outcomes |-> outcomes, outcomePrices |-> outcomePrices,
      last_price_dollars |-> last_price_dollars, last_price |-> None ]

yesNoLabels == << jsonString(T_Yes), jsonString(T_No) >>

\* platform-A records, well formed and malformed: prices at the boundaries
\* 0 and 1, outside [0, 1], not numeric; labels as an unparseable text, as
\* the JSON texts null, [1, 0] and 7, as an array holding a number; prices
\* as an unparseable text and as the JSON text 7; no labels; no prices but
\* a last price of 1
RawPolyPool ==
    << polyRecord("a1", fieldArray(yesNoLabels),
                  fieldJSON(jsonArray(<< jsonString(T_0), jsonString(T_1) >>)), None),
       polyRecord("a2", fieldJSON(jsonArray(yesNoLabels)),
                  fieldArray(<< jsonNumber(1500), jsonNumber(-100) >>), None),
       polyRecord("a3", fieldArray(yesNoLabels),
                  fieldJSON(jsonArray(<< jsonString(T_abc), jsonString(T_0_35) >>)), None),
       polyRecord("a4", fieldBadJSON,
                  fieldArray(<< jsonNumber(400), jsonNumber(600) >>), None),
       polyRecord("a5", fieldJSON([ k |-> "null" ]),
                  fieldArray(<< jsonNumber(400), jsonNumber(600) >>), None),
       polyRecord("a6", fieldJSON(jsonArray(<< jsonNumber(1), jsonNumber(0) >>)),
                  fieldArray(<< jsonNumber(400), jsonNumber(600) >>), None),
       polyRecord("a7", fieldJSON(jsonNumber(7)),
                  fieldArray(<< jsonNumber(400), jsonNumber(600) >>), None),
       polyRecord("a8", fieldArray(<< jsonNumber(1), jsonString(T_No) >>),
                  fieldArray(<< jsonNumber(400), jsonNumber(600) >>), None),
       polyRecord("a9", fieldArray(yesNoLabels), fieldBadJSON, None),
       polyRecord("a10", fieldArray(yesNoLabels), fieldJSON(jsonNumber(7)), None),
       polyRecord("a11", fieldUndefined,
                  fieldArray(<< jsonNumber(400), jsonNumber(600) >>), None),
       polyRecord("a12", fieldArray(yesNoLabels), fieldUndefined, Some(T_1)) >>

\* a record with a ticker: its title, its bid and ask in dollars and in
\* cents, its last price in dollars and in cents
kalshiRecord(ticker, title, bidD, askD, bid, ask, lastD, last) ==
    [ ticker |-> Some(ticker), event_ticker |-> None,
      event_title |-> title,
      yes_bid_dollars |-> bidD, yes_ask_dollars |-> askD,
      yes_bid |-> bid, yes_ask |-> ask,
      last_price_dollars |-> lastD, last_price |-> last ]

\* platform-B records on every price branch: a mid price, an ask of 1, a
\* bid of 0, cents, cents above 100, a last price that is not numeric, a
\* last price of 100 cents and of 0 cents, no price at all, no title
RawKalshiPool ==
    << kalshiRecord("b1", Some(T_TrumpWin2024), Some(T_0_44), Some(T_0_46),
                    None, None, None, None),
       kalshiRecord("b2", Some(T_TrumpWin2024), None, Some(T_1),
                    None, None, None, None),
       kalshiRecord("b3", Some(T_TrumpWin2024), Some(T_0), None,
                    None, None, None, None),
       kalshiRecord("b4", Some(T_TrumpWin2024), None, None,
                    Some(57), Some(59), None, None),
       kalshiRecord("b5", Some(T_TrumpWin2024), None, None,
                    Some(150), Some(250), None, None),
       kalshiRecord("b6", Some(T_TrumpWin2024), None, None,
                    None, None, Some(T_abc), None),
       kalshiRecord("b7", Some(T_TrumpWin2024), None, None,
                    None, None, None, Some(100)),
       kalshiRecord("b8", Some(T_TrumpWin2024), None, None,
                    None, None, None, Some(0)),
       kalshiRecord("b9", Some(T_TrumpWin2024), None, None,
                    None, None, None, None),
       kalshiRecord("b10", None, None, Some(T_0_50),
                    None, None, None, None) >>

\* the longest list of platform-A and of platform-B records handed to
\* normalizeAllMarkets
MaxRawPoly == 2
MaxRawKalshi == 1

NormInit ==
    /\ normPc = "polymarket"
    /\ rawPolymarket \in ListsOf(RawPolyPool, MaxRawPoly)
    /\ rawKalshi \in ListsOf(RawKalshiPool, MaxRawKalshi)
    /\ normIndex = 1
    /\ allNormalized = << >>
    /\ result = None
    /\ MatchIdle
    /\ ArbIdle
    /\ PostIdle
    /\ TitleIdle
    /\ BatchIdle
    /\ CacheIdle
    /\ MarketsIdle

\* one turn of a loop of normalizeAllMarkets: the call of the normalizer
\* returned r, or raised (nothing catches it: normalizeAllMarkets raises)
pushResult(platform, r) ==
    /\ result' = Some([ platform |-> platform, index |-> normIndex,
                        threw |-> r.threw, list |-> r.list ])
    /\ IF r.threw
       THEN /\ normPc' = "threw"
            /\ UNCHANGED << normIndex, allNormalized >>
       ELSE /\ allNormalized' = allNormalized \o r.list
            /\ normIndex' = normIndex + 1
            /\ UNCHANGED normPc

NormalizePolymarket ==
    /\ normPc = "polymarket"
    /\ normIndex <= Len(rawPolymarket)
    /\ pushResult("polymarket", normalizePolymarketMarket(rawPolymarket[normIndex]))
    /\ UNCHANGED << rawPolymarket, rawKalshi >>
    /\ UNCHANGED outsideNorm

PolymarketLoopDone ==
    /\ normPc = "polymarket"
    /\ normIndex > Len(rawPolymarket)
    /\ normPc' = "kalshi"
    /\ normIndex' = 1
    /\ UNCHANGED << rawPolymarket, rawKalshi, allNormalized, result >>
    /\ UNCHANGED outsideNorm

NormalizeKalshi ==
    /\ normPc = "kalshi"
    /\ normIndex <= Len(rawKalshi)
    /\ pushResult("kalshi", normalizeKalshiMarket(rawKalshi[normIndex]))
    /\ UNCHANGED << rawPolymarket, rawKalshi >>
    /\ UNCHANGED outsideNorm

KalshiLoopDone ==
    /\ normPc = "kalshi"
    /\ normIndex > Len(rawKalshi)
    /\ normPc' = "done"
    /\ UNCHANGED << rawPolymarket, rawKalshi, normIndex, allNormalized, result >>
    /\ UNCHANGED outsideNorm

NormNext ==
    \/ NormalizePolymarket
    \/ PolymarketLoopDone
    \/ NormalizeKalshi
    \/ KalshiLoopDone

SpecNorm == NormInit /\ [][NormNext]_vars

\* the raw record the latest normalizer call was given
resultRecord ==
    IF result[1].platform = "polymarket" THEN rawPolymarket[result[1].index]
    ELSE rawKalshi[result[1].index]

emitted(o, p) ==
    \E i \in DOMAIN result[1].list :
        result[1].list[i].outcome = o /\ result[1].list[i].price = p

\* label i of a platform-A record is emitted exactly when it reads as YES or
\* NO and has a price that is a number of [0, 1], the ends included
polyLabelKept(market, labels, prices, i) ==
    LET o == normalizeOutcome(labels[i].s)
        p == polyPriceAt(market, prices, i)
    IN  IF o # None /\ p # None /\ p[1] # NaN
        THEN emitted(o[1], p[1][1]) <=> (p[1][1] >= 0 /\ p[1][1] <= Scale)
        ELSE TRUE

\* C14: normalizePolymarketMarket keeps an outcome priced exactly 0 or 1 and
\* skips only prices outside [0, 1] or NaN; normalizeKalshiMarket emits a
\* side only at a price strictly inside (0, 1), and a record whose YES price
\* is 0 or 1 yields no outcome.
C14_BoundaryAsymmetry ==
    (result # None /\ ~ result[1].threw) =>
        IF result[1].platform = "polymarket"
        THEN (/\ resultRecord.question # << >>
              /\ polyOutcomesArray(resultRecord).ok
              /\ polyPricesArray(resultRecord).ok) =>
                 \A i \in DOMAIN polyOutcomesArray(resultRecord).labels :
                    polyLabelKept(resultRecord,
                                  polyOutcomesArray(resultRecord).labels,
                                  polyPricesArray(resultRecord).prices, i)
        ELSE /\ \A i \in DOMAIN result[1].list :
                  result[1].list[i].price > 0 /\ result[1].list[i].price < Scale
             /\ kalshiYesPrice(resultRecord) \in { Some(Some(0)), Some(Some(Scale)) }
                  => result[1].list = << >>

\* a platform-A record has been emitted at the prices 0 and 1, and a
\* platform-B record with a title and a YES price of 0 or 1 yielded nothing
C14_Witness ==
    /\ normPc = "done"
    /\ \E i, j \in DOMAIN allNormalized :
          /\ allNormalized[i].platform = "polymarket"
          /\ allNormalized[i].price = 0
          /\ allNormalized[j].platform = "polymarket"
          /\ allNormalized[j].price = Scale
    /\ result # None
    /\ result[1].platform = "kalshi"
    /\ resultRecord.event_title # None
    /\ kalshiYesPrice(resultRecord) \in { Some(Some(0)), Some(Some(Scale)) }
    /\ result[1].list = << >>

\* the outcomes of the records i, i + 1, ... of a list, those of a record
\* whose normalizer raises left out
RECURSIVE polyOutcomesFrom(_, _)
polyOutcomesFrom(list, i) ==
    IF i > Len(list) THEN << >>
    ELSE normalizePolymarketMarket(list[i]).list \o polyOutcomesFrom(list, i + 1)

RECURSIVE kalshiOutcomesFrom(_, _)
kalshiOutcomesFrom(list, i) ==
    IF i > Len(list) THEN << >>
    ELSE normalizeKalshiMarket(list[i]).list \o kalshiOutcomesFrom(list, i + 1)

\* C15: no raw record makes a normalizer raise, whatever is missing or
\* malformed in it, and normalizeAllMarkets runs to its end and returns the
\* outcomes of all the records that have any.
C15_NeverAborts ==
    /\ normPc # "threw"
    /\ result # None => ~ result[1].threw
    /\ normPc = "done" =>
          allNormalized = polyOutcomesFrom(rawPolymarket, 1)
                             \o kalshiOutcomesFrom(rawKalshi, 1)

-----------------------------------------------------------------------------
(* Properties of matchRawMarkets: the verifier's failures, the order of    *)
(* consumption                                                             *)

\* the ranks of the candidates sent to the verifier and not verified: a
\* call that failed resolves to aiFailure, which is such an answer, and
\* matchRawMarkets sees nothing else of the failure
calledUnverified == aiCalled \ aiVerified

\* candidate r was accepted, or a candidate ranked before it was accepted
\* with its platform-B identifier
acceptedOrConsumed(r) ==
    \E a \in DOMAIN accepted :
        \/ accepted[a] = candidatePairs[r]
        \/ /\ acceptedId(a) = kalshiIdOf(kalshiMarketOf(candidatePairs[r]))
           /\ \E q \in 1..(r - 1) : candidatePairs[q] = accepted[a]

\* the call rejects only where a normalizer raises on the candidate at hand
rejectsOnlyInNormalizer ==
    pc = "threw" =>
        /\ ci \in DOMAIN remainingCandidates
        /\ \/ normalizedPolymarketOf(polyMarketOf(remainingCandidates[ci])).threw
           \/ normalizedKalshiOf(kalshiMarketOf(remainingCandidates[ci])).threw

-----------------------------------------------------------------------------
(* normalizeEventTitle and calculateSimilarity on pairs of titles *)

\* "Will"
W_Will ==
    << "W", "i", "l", "l" >>

\* "Trump"
W_Trump ==
    << "T", "r", "u", "m", "p" >>

\* "win"
W_win ==
    << "w", "i", "n" >>

\* "happen?"
W_happen ==
    << "h", "a", "p", "p", "e", "n", "?" >>

\* "donald-trump"
W_donald_trump ==
    << "d", "o", "n", "a", "l", "d", "-", "t", "r", "u", "m", "p" >>

\* "the"
W_the ==
    << "t", "h", "e" >>

\* "2024"
W_2024 ==
    << "2", "0", "2", "4" >>

\* the words the titles are made of
WORDS == << W_Will, W_Trump, W_win, W_happen, W_donald_trump, W_the, W_2024 >>

\* "Donald Trump?"
T_DonaldTrumpQ ==
    << "D", "o", "n", "a", "l", "d", " ", "T", "r", "u", "m", "p", "?" >>

\* "Trump Biden election 2024"
T_TrumpBidenElection2024 ==
    << "T", "r", "u", "m", "p", " ", "B", "i", "d", "e", "n", " ", "e",
       "l", "e", "c", "t", "i", "o", "n", " ", "2", "0", "2", "4" >>

\* "Biden Trump election 2024"
T_BidenTrumpElection2024 ==
    << "B", "i", "d", "e", "n", " ", "T", "r", "u", "m", "p", " ", "e",
       "l", "e", "c", "t", "i", "o", "n", " ", "2", "0", "2", "4" >>

\* "NFL NBA GDP"
T_NflNbaGdp ==
    << "N", "F", "L", " ", "N", "B", "A", " ", "G", "D", "P" >>

\* "to the"
T_ToThe ==
    << "t", "o", " ", "t", "h", "e" >>

\* "Go up"
T_GoUp ==
    << "G", "o", " ", "u", "p" >>

\* titles for each path of calculateSimilarity: the empty title, titles with
\* the same canonical form, with the same words in another order, keywords
\* on one side only, stop words only, short words only
TitlePool ==
    { << >>, T_DonaldTrumpQ, T_TrumpWin2024, T_WillTrumpWin2024,
      T_TrumpBidenElection2024, T_BidenTrumpElection2024, T_NflNbaGdp,
      T_ToThe, T_GoUp }

\* the most words of a title made of WORDS
MaxWords == 2

\* the words ws[i], ws[i + 1], ... joined by single spaces
RECURSIVE joinFrom(_, _)
joinFrom(ws, i) ==
    IF i > Len(ws) THEN << >>
    ELSE IF i = Len(ws) THEN ws[i]
    ELSE ws[i] \o << " " >> \o joinFrom(ws, i + 1)

\* the titles of at most n words
WordTitles(n) ==
    { joinFrom([ i \in DOMAIN ix |-> WORDS[ix[i]] ], 1) :
        ix \in UNION { [1..k -> DOMAIN WORDS] : k \in 0..n } }
TitleInit ==
    /\ titlePc = "ready"
    /\ simTitle1 \in WordTitles(MaxWords) \cup TitlePool
    /\ simTitle2 \in TitlePool \cup { simTitle1 }
    /\ canonical = None
    /\ canonicalAgain = None
    /\ similarity = None
    /\ MatchIdle
    /\ ArbIdle
    /\ PostIdle
    /\ NormIdle
    /\ BatchIdle
    /\ CacheIdle
    /\ MarketsIdle

\* normalizeEventTitle(simTitle1)
NormalizeTitle ==
    /\ titlePc = "ready"
    /\ canonical' = Some(normalizeEventTitle(simTitle1))
    /\ titlePc' = "normalized"
    /\ UNCHANGED << simTitle1, simTitle2, canonicalAgain, similarity >>
    /\ UNCHANGED outsideTitle

\* normalizeEventTitle of the canonical form just computed
NormalizeAgain ==
    /\ titlePc = "normalized"
    /\ canonicalAgain' = Some(normalizeEventTitle(canonical[1]))
    /\ titlePc' = "renormalized"
    /\ UNCHANGED << simTitle1, simTitle2, canonical, similarity >>
    /\ UNCHANGED outsideTitle

\* calculateSimilarity on the two titles, in both orders
CalculateSimilarity ==
    /\ titlePc = "ready"
    /\ similarity' = Some([ forward  |-> calculateSimilarity(simTitle1, simTitle2),
                            backward |-> calculateSimilarity(simTitle2, simTitle1) ])
    /\ titlePc' = "scored"
    /\ UNCHANGED << simTitle1, simTitle2, canonical, canonicalAgain >>
    /\ UNCHANGED outsideTitle

TitleNext ==
    \/ NormalizeTitle
    \/ NormalizeAgain
    \/ CalculateSimilarity

SpecTitle == TitleInit /\ [][TitleNext]_vars

\* C17: normalizeEventTitle applied to a canonical form returns it
\* unchanged.
C17_Idempotent ==
    titlePc = "renormalized" => canonicalAgain = canonical

\* a similarity is a number of [0, 1]
inUnitInterval(x) == RatGeq(x, Rat(0, 1)) /\ RatGeq(Rat(1, 1), x)

\* C18: calculateSimilarity returns a number of [0, 1] for every pair of
\* titles, whichever way it returns: equal canonical forms, containment, a
\* title without a word longer than 2 characters, the weighted sum.
C18_SimilarityBounded ==
    titlePc = "scored" =>
        /\ inUnitInterval(similarity[1].forward)
        /\ inUnitInterval(similarity[1].backward)

\* a pair scored by the weighted sum, which was above 1 before the clamp:
\* the canonical forms differ, neither contains the other, and the result
\* is 1
C18_Witness ==
    /\ titlePc = "scored"
    /\ normalizeEventTitle(simTitle1) # normalizeEventTitle(simTitle2)
    /\ ~ Includes(normalizeEventTitle(simTitle1), normalizeEventTitle(simTitle2))
    /\ ~ Includes(normalizeEventTitle(simTitle2), normalizeEventTitle(simTitle1))
    /\ similarity[1].forward = Rat(1, 1)

\* C19: calculateSimilarity returns exactly 1 for two titles with the same
\* canonical form, in particular for a title and itself.
C19_EqualCanonicalFormsScoreOne ==
    (titlePc = "scored"
        /\ normalizeEventTitle(simTitle1) = normalizeEventTitle(simTitle2)) =>
        /\ similarity[1].forward = Rat(1, 1)
        /\ similarity[1].backward = Rat(1, 1)

\* two different titles with the same canonical form, not empty, have been
\* scored
C19_Witness ==
    /\ titlePc = "scored"
    /\ simTitle1 # simTitle2
    /\ normalizeEventTitle(simTitle1) = normalizeEventTitle(simTitle2)
    /\ normalizeEventTitle(simTitle1) # << >>
    /\ similarity[1].forward = Rat(1, 1)

\* candidate c was generated before candidate d (lines 127-157: platform-A
\* record by platform-A record, then platform-B record by platform-B record)
generatedBefore(c, d) == c.pi < d.pi \/ (c.pi = d.pi /\ c.ki < d.ki)

\* a list of candidates is in rank order: similarity never increases, and
\* candidates of equal similarity are in the order of their generation
inRankOrder(list) ==
    \A i, j \in DOMAIN list :
        i < j => \/ RatLess(list[j].basicSimilarity, list[i].basicSimilarity)
                 \/ /\ list[j].basicSimilarity = list[i].basicSimilarity
                    /\ generatedBefore(list[i], list[j])

\* the accepted candidates are the first candidates of their platform-B
\* identifier among the candidates of the final set processed so far
acceptedAreFirst ==
    Selected =>
        accepted = subsequenceAt(remainingCandidates,
                                 { r \in firstOfIdentifier(remainingCandidates) :
                                     r < ci })

\* one step of the consumption loop: it is at the next candidate of the
\* final set, and what it accepts is the candidate it was at
nextInRank ==
    /\ pc = "consume" => (ci' = ci + 1 \/ (pc' = "threw" /\ ci' = ci))
    /\ remainingCandidates # << >> => remainingCandidates' = remainingCandidates
    /\ \/ accepted' = accepted
       \/ /\ pc = "consume"
          /\ accepted' = Append(accepted, remainingCandidates[ci])

\* C20: the final candidates are processed one by one in rank order (best
\* similarity first, candidates of equal similarity in the order of their
\* generation); an accepted pair is the first candidate of the final set
\* with its platform-B identifier, and once accepted it stays: the accepted
\* list only grows, by the candidate being processed.
C20_RankOrderConsumption ==
    /\ [](inRankOrder(candidatePairs) /\ inRankOrder(remainingCandidates))
    /\ []acceptedAreFirst
    /\ [][nextInRank]_vars

\* a finished call that processed two candidates of different similarity
\* with the same platform-B identifier, accepted the better and skipped the
\* other, and two candidates of equal similarity
C20_Witness ==
    /\ pc = "done"
    /\ \E i, j \in DOMAIN remainingCandidates :
          /\ i < j
          /\ RatLess(remainingCandidates[j].basicSimilarity,
                     remainingCandidates[i].basicSimilarity)
          /\ kalshiIdOf(kalshiMarketOf(remainingCandidates[i]))
                = kalshiIdOf(kalshiMarketOf(remainingCandidates[j]))
          /\ remainingCandidates[i] \in Range(accepted)
          /\ remainingCandidates[j] \notin Range(accepted)
    /\ \E i, j \in DOMAIN remainingCandidates :
          /\ i < j
          /\ remainingCandidates[i].basicSimilarity
                = remainingCandidates[j].basicSimilarity

-----------------------------------------------------------------------------
(* The verification loop of matchRawMarkets (lib/matching.ts, lines 193-224),
   call by call: the candidates are their ranks, 1 the best; what a call
   answers plays no part in when it is issued *)

\* candidate lists of up to this many candidates
MaxCandidates == 102

\* the sorted candidate list, each candidate written as its rank
ranksOf(n) == [r \in 1 .. n |-> r]

\* aiCandidates.slice(i, i + 10)
batchOf(aiCandidates, i) ==
    SubSeq(aiCandidates, i + 1, Min(i + AI_BATCH_SIZE, Len(aiCandidates)))

\* the number (0 the first) of the batch a rank belongs to
batchNumberOf(r) == (r - 1) \div AI_BATCH_SIZE

BatchInit ==
    /\ batchPc = "start"
    /\ batchUseAI \in BOOLEAN
    /\ candidateCount \in 0 .. MaxCandidates
    /\ batchI = 0
    /\ issuedCalls = {}
    /\ pendingCalls = {}
    /\ MatchIdle
    /\ ArbIdle
    /\ PostIdle
    /\ NormIdle
    /\ TitleIdle
    /\ CacheIdle
    /\ MarketsIdle

\* lines 195-201: the candidates to verify; the loop is entered when there
\* are any
EnterLoop ==
    /\ batchPc = "start"
    /\ batchPc' =
           IF batchUseAI
              /\ Len(aiCandidatesOf(ranksOf(candidateCount), batchUseAI)) > 0
           THEN "loop" ELSE "done"
    /\ UNCHANGED << batchUseAI, candidateCount, batchI, issuedCalls,
                    pendingCalls >>
    /\ UNCHANGED outsideBatch

\* lines 201-207: batch.map issues the call of every candidate of the batch
\* before Promise.all is awaited
IssueBatch ==
    /\ batchPc = "loop"
    /\ LET aiCandidates == aiCandidatesOf(ranksOf(candidateCount), batchUseAI)
       IN  /\ batchI < Len(aiCandidates)
           /\ issuedCalls' = issuedCalls \cup Range(batchOf(aiCandidates, batchI))
           /\ pendingCalls' = Range(batchOf(aiCandidates, batchI))
    /\ batchPc' = "awaiting"
    /\ UNCHANGED << batchUseAI, candidateCount, batchI >>
    /\ UNCHANGED outsideBatch

\* one verifier call settles; the calls of a batch settle in any order, and
\* matchMarketsWithAI never rejects
CallCompletes ==
    /\ batchPc = "awaiting"
    /\ \E r \in pendingCalls : pendingCalls' = pendingCalls \ {r}
    /\ UNCHANGED << batchPc, batchUseAI, candidateCount, batchI, issuedCalls >>
    /\ UNCHANGED outsideBatch

\* lines 203-223: Promise.all resolves when every call of the batch has
\* settled; the answers are collected, the delay passes, i += 10
CollectBatch ==
    /\ batchPc = "awaiting"
    /\ pendingCalls = {}
    /\ batchI' = batchI + AI_BATCH_SIZE
    /\ batchPc' = "loop"
    /\ UNCHANGED << batchUseAI, candidateCount, issuedCalls, pendingCalls >>
    /\ UNCHANGED outsideBatch

\* line 201: i < aiCandidates.length fails
LoopExit ==
    /\ batchPc = "loop"
    /\ batchI >= Len(aiCandidatesOf(ranksOf(candidateCount), batchUseAI))
    /\ batchPc' = "done"
    /\ UNCHANGED << batchUseAI, candidateCount, batchI, issuedCalls,
                    pendingCalls >>
    /\ UNCHANGED outsideBatch

BatchNext ==
    \/ EnterLoop
    \/ IssueBatch
    \/ CallCompletes
    \/ CollectBatch
    \/ LoopExit

SpecBatch == BatchInit /\ [][BatchNext]_vars

\* calls are issued for the best candidates only, without a gap in the rank
\* order, and every call still pending belongs to the batch issued last
issuedInRankOrder ==
    /\ issuedCalls = 1 .. Cardinality(issuedCalls)
    /\ Cardinality(issuedCalls) <= Min(candidateCount, AI_CANDIDATE_CAP)
    /\ ~batchUseAI => issuedCalls = {}
    /\ pendingCalls \subseteq issuedCalls
    /\ \A r \in pendingCalls :
          batchNumberOf(r) = batchNumberOf(Cardinality(issuedCalls))
    /\ batchPc = "done" /\ batchUseAI =>
          /\ issuedCalls = 1 .. Min(candidateCount, AI_CANDIDATE_CAP)
          /\ pendingCalls = {}

\* calls are issued a batch at a time: at most 10, all of one batch, the
\* batch right after the ones issued before, and only when no call is pending
issuesOneBatch ==
    issuedCalls' # issuedCalls =>
        /\ pendingCalls = {}
        /\ pendingCalls' = issuedCalls' \ issuedCalls
        /\ issuedCalls \subseteq issuedCalls'
        /\ Cardinality(pendingCalls') <= AI_BATCH_SIZE
        /\ \A r \in pendingCalls' :
              /\ batchNumberOf(r) * AI_BATCH_SIZE = Cardinality(issuedCalls)
              /\ batchNumberOf(r) * AI_BATCH_SIZE = batchI

\* the answers of a batch are collected only when every call has settled
awaitsWholeBatch == batchI' # batchI => pendingCalls = {} /\ pendingCalls' = {}

\* C21: verifier calls are issued only for the 100 best candidates, in
\* batches of at most 10 in rank order; the calls of a batch are awaited
\* together, and no call of the next batch is issued before every call of
\* the batch has completed.
C21_BatchesInRankOrder ==
    /\ []issuedInRankOrder
    /\ [][issuesOneBatch /\ awaitsWholeBatch]_vars

\* more than 100 candidates, the last batch issued while an earlier batch
\* has long completed, some of its calls still pending
C21_Witness ==
    /\ candidateCount > AI_CANDIDATE_CAP
    /\ batchPc = "awaiting"
    /\ AI_CANDIDATE_CAP \in pendingCalls
    /\ Cardinality(pendingCalls) = 2
    /\ 1 \in issuedCalls

-----------------------------------------------------------------------------
(* Properties of calculateSimilarity: titles without a long word, swapped
   titles, empty canonical forms *)

\* the two canonical forms differ and neither contains the other
reachesWordStep(normalized1, normalized2) ==
    /\ normalized1 # normalized2
    /\ ~Includes(normalized1, normalized2)
    /\ ~Includes(normalized2, normalized1)

\* one of the canonical forms has no word longer than 2 characters
lacksLongWord(normalized1, normalized2) ==
    longWords(normalized1) = << >> \/ longWords(normalized2) = << >>

\* steps 4-7 of the score with a Jaccard term of 0, clamped to [0, 1]
sumWithoutJaccard(normalized1, normalized2) ==
    finalScoreOf(Rat(0, 1),
                 charSimilarityOf(normalized1, normalized2),
                 numberMatchOf(DigitRuns(normalized1), DigitRuns(normalized2)),
                 keywordBonusOf(toLowerCase(normalized1), toLowerCase(normalized2)))

\* a pair that reaches the word step with a title without a long word scores
\* the clamped sum of the remaining terms
scoresRemainingTerms(normalized1, normalized2) ==
    reachesWordStep(normalized1, normalized2)
    /\ lacksLongWord(normalized1, normalized2)
    => similarity[1].forward = sumWithoutJaccard(normalized1, normalized2)

\* a pair that reaches the word step with a title without a long word scores
\* 0 in both orders
scoresZero(normalized1, normalized2) ==
    reachesWordStep(normalized1, normalized2)
    /\ lacksLongWord(normalized1, normalized2)
    => /\ similarity[1].forward.num = 0
       /\ similarity[1].backward.num = 0

\* C22 as stated: with no exact match and no containment, a title without a
\* word longer than 2 characters makes the Jaccard term 0 and the result the
\* clamped sum of the remaining terms.
C22_Original ==
    titlePc = "scored" =>
        scoresRemainingTerms(normalizeEventTitle(simTitle1),
                             normalizeEventTitle(simTitle2))

\* C22: with no exact match and no containment, a title without a word
\* longer than 2 characters makes calculateSimilarity return 0, in both
\* argument orders, whatever the remaining terms would add up to.
C22_NoLongWordScoresZero ==
    titlePc = "scored" =>
        scoresZero(normalizeEventTitle(simTitle1), normalizeEventTitle(simTitle2))

\* such a pair, scored, whose remaining terms add up to more than 0
C22_Witness ==
    /\ titlePc = "scored"
    /\ reachesWordStep(normalizeEventTitle(simTitle1), normalizeEventTitle(simTitle2))
    /\ lacksLongWord(normalizeEventTitle(simTitle1), normalizeEventTitle(simTitle2))
    /\ sumWithoutJaccard(normalizeEventTitle(simTitle1),
                         normalizeEventTitle(simTitle2)).num > 0
    /\ similarity[1].forward.num = 0

\* the score is on the same side of the bound in both argument orders
sameSideOf(bound, forward, backward) ==
    RatGeq(forward, bound) <=> RatGeq(backward, bound)

\* C23: swapping the two titles never changes the classification of a pair:
\* calculateSimilarity(a, b) >= 0.25 iff calculateSimilarity(b, a) >= 0.25,
\* and the same at 0.4, titles with a repeated numeric token included.
C23_SwapKeepsClassification ==
    titlePc = "scored" =>
        /\ sameSideOf(CANDIDATE_FLOOR, similarity[1].forward, similarity[1].backward)
        /\ sameSideOf(BASIC_THRESHOLD, similarity[1].forward, similarity[1].backward)

\* exactly one of the two canonical forms is empty
oneEmpty(normalized1, normalized2) ==
    (normalized1 = << >>) # (normalized2 = << >>)

\* both scores are the given number
scoredBothWays(x) ==
    /\ similarity[1].forward = x
    /\ similarity[1].backward = x

\* 0.7 with one canonical form empty, 1 with both
emptyFormScores(normalized1, normalized2) ==
    /\ oneEmpty(normalized1, normalized2)
          => /\ scoredBothWays(Rat(7, 10))
             /\ RatGeq(similarity[1].forward, CANDIDATE_FLOOR)
             /\ RatGeq(similarity[1].forward, BASIC_THRESHOLD)
    /\ normalized1 = << >> /\ normalized2 = << >>
          => scoredBothWays(Rat(1, 1))

\* C28: when exactly one of the two titles has an empty canonical form,
\* calculateSimilarity returns exactly 0.7, which clears the candidate floor
\* 0.25 and the acceptance threshold 0.4; when both canonical forms are
\* empty it returns 1.
C28_EmptyCanonicalForm ==
    titlePc = "scored" =>
        emptyFormScores(normalizeEventTitle(simTitle1), normalizeEventTitle(simTitle2))

\* a title of stop words only scored against a title with a non-empty
\* canonical form that shares no word with it
C28_Witness ==
    /\ titlePc = "scored"
    /\ simTitle1 # << >>
    /\ normalizeEventTitle(simTitle1) = << >>
    /\ normalizeEventTitle(simTitle2) # << >>
    /\ scoredBothWays(Rat(7, 10))

-----------------------------------------------------------------------------
(* Properties of calculateArbitrage: the cost of a same-outcome pair, and a
   configuration value of 0 *)

\* the defaults are in force: every field is absent, 0 or its default
DefaultsInForce ==
    /\ EffMinProfitPercent = DEFAULT_CONFIG.minProfitPercent[1]
    /\ EffMinTrueArbitrageProfit = DEFAULT_CONFIG.minTrueArbitrageProfit[1]
    /\ EffTransactionFee = DEFAULT_CONFIG.transactionFee[1]

\* C25: for an unresolved pair of the same outcome with prices p and k the
\* total cost before fees is 1 - |k - p|; so with the defaults in force
\* (fee 0.01, minTrueArbitrageProfit 0.01, minProfitPercent 5.0) every pair
\* with |profitPercent| >= 5.0 is a true arbitrage and arbitrageType is
\* never "spread".
C25_SameOutcomeCost ==
    (ArbDone /\ opp[1].isResolved = Some(FALSE)) =>
        /\ totalCostOf(arbMatched.polymarket, arbMatched.kalshi)
              = Scale - Abs(ArbK - ArbP)
        /\ opp[1].totalCost
              = Some((Scale - Abs(ArbK - ArbP)) * (Scale + EffTransactionFee))
        /\ DefaultsInForce =>
              /\ Abs(opp[1].profitPercent) >= 5 * Scale
                    => opp[1].arbitrageType = Some("true")
              /\ opp[1].arbitrageType # Some("spread")

\* the defaults in force, an unresolved pair 7 points apart: a true
\* arbitrage whose total cost with the fee is 0.93 * 1.01
C25_Witness ==
    /\ ArbDone
    /\ DefaultsInForce
    /\ opp[1].isResolved = Some(FALSE)
    /\ ArbP = 650 /\ ArbK = 580
    /\ opp[1].arbitrageType = Some("true")
    /\ opp[1].totalCost = Some(930 * 1010)

\* the configuration with every field that is 0 left out
omitZeros(config) ==
    [ f \in DOMAIN config |-> IF config[f] = Some(0) THEN None ELSE config[f] ]

\* C26: a configuration value of 0 is treated as absent: the fee 0 is
\* replaced by 0.01, minProfitPercent 0 by 5.0, minTrueArbitrageProfit 0 by
\* 0.01, and the result for a configuration holding a 0 is the result for
\* the same configuration with that field left out.
C26_ZeroIsAbsent ==
    ArbDone =>
        /\ opp[1] = calculateArbitrage(arbMatched, omitZeros(arbConfig))
        /\ opp[1].isResolved = Some(FALSE) /\ arbConfig.transactionFee = Some(0)
              => opp[1].totalCost
                    = Some(totalCostOf(arbMatched.polymarket, arbMatched.kalshi)
                              * (Scale + 10))
        /\ opp[1].isResolved = Some(FALSE) /\ arbConfig.minProfitPercent = Some(0)
              => (Abs(opp[1].profitPercent) < 5 * Scale
                     => opp[1].arbitrageType # Some("spread"))
        /\ opp[1].isResolved = Some(FALSE)
           /\ arbConfig.minTrueArbitrageProfit = Some(0)
              => (opp[1].arbitrageType = Some("true")
                     => opp[1].guaranteedProfit[1] >= 10 * Scale)

\* a fee of 0 and thresholds of 0 on an unresolved pair of equal prices:
\* the cost carries the 1% fee and the pair is no arbitrage
C26_Witness ==
    /\ ArbDone
    /\ arbConfig = [ minProfitPercent |-> Some(0),
                     minTrueArbitrageProfit |-> Some(0),
                     transactionFee |-> Some(0) ]
    /\ ArbP = 500 /\ ArbK = 500
    /\ opp[1].totalCost = Some(Scale * (Scale + 10))
    /\ opp[1].arbitrage = FALSE

-----------------------------------------------------------------------------
(* Properties of matchRawMarkets: what an accepted pair yields and consumes *)

\* the MatchedMarket entries of an accepted candidate
entriesOf(candidate) ==
    expandFrom(polyMarketOf(candidate).question,
               normalizedPolymarketOf(polyMarketOf(candidate)).list,
               normalizedKalshiOf(kalshiMarketOf(candidate)).list, 1)

\* the entries of the accepted candidates from position a on, in order
RECURSIVE entriesFrom(_)
entriesFrom(a) ==
    IF a > Len(accepted) THEN << >>
    ELSE entriesOf(accepted[a]) \o entriesFrom(a + 1)

\* the final candidates already processed that come after position r and
\* carry the platform-B identifier of the candidate at r
laterWithSameId(r) ==
    { s \in (r + 1) .. (ci - 1) :
        kalshiIdOf(kalshiMarketOf(remainingCandidates[s]))
            = kalshiIdOf(kalshiMarketOf(remainingCandidates[r])) }

\* C27: an accepted candidate consumes its platform-B identifier whether or
\* not its expansion yields a MatchedMarket: every lower-ranked candidate
\* with that identifier is skipped, and the result holds exactly the entries
\* of the accepted candidates, so a platform-B record accepted with an
\* empty expansion contributes nothing.
C27_ConsumedWithoutEntries ==
    Selected =>
        /\ \A a \in DOMAIN accepted : acceptedId(a) \in usedKalshi
        /\ \A r \in 1 .. (ci - 1) :
              remainingCandidates[r] \in Range(accepted) =>
                  \A s \in laterWithSameId(r) :
                      remainingCandidates[s] \notin Range(accepted)
        /\ matched = entriesFrom(1)

\* a finished call that accepted a candidate whose platform-A record
\* normalizes to no outcome, and then skipped a candidate of the same
\* platform-B identifier that clears the threshold and would have yielded
\* entries
C27_Witness ==
    /\ pc = "done"
    /\ ~useAI
    /\ \E r \in DOMAIN remainingCandidates :
          /\ remainingCandidates[r] \in Range(accepted)
          /\ normalizedPolymarketOf(polyMarketOf(remainingCandidates[r])).list = << >>
          /\ normalizedKalshiOf(kalshiMarketOf(remainingCandidates[r])).list # << >>
          /\ \E s \in laterWithSameId(r) :
                /\ RatGeq(remainingCandidates[s].basicSimilarity, BASIC_THRESHOLD)
                /\ entriesOf(remainingCandidates[s]) # << >>
                /\ remainingCandidates[s] \notin Range(accepted)
    /\ matched = << >>

\* the entries of an accepted candidate that are of the given side
entriesOfSide(candidate, side) ==
    { n \in DOMAIN entriesOf(candidate) :
        entriesOf(candidate)[n].polymarket.outcome = side }

\* C24: one accepted pair yields at most 2 MatchedMarket entries, at most
\* one for YES and at most one for NO, whatever the platform-A record:
\* more than two labels, or several labels that map to the same side.
C24_AtMostTwoEntries ==
    Selected =>
        /\ \A a \in DOMAIN accepted :
              /\ Len(entriesOf(accepted[a])) <= 2
              /\ Cardinality(entriesOfSide(accepted[a], "YES")) <= 1
              /\ Cardinality(entriesOfSide(accepted[a], "NO")) <= 1
        /\ Len(matched) <= 2 * Len(accepted)

-----------------------------------------------------------------------------
(* lib/cache.ts: TTLCache *)

\* new TTLCache<any>(600000): the default TTL of the two exported caches
DEFAULT_TTL == 600000

\* how often the clock advances
MaxTicks == 4

\* the clock advances by a millisecond or by a whole default TTL
TickSteps == { 1, DEFAULT_TTL }

CacheKeys == { "markets", "arbitrage-default" }
CacheData == { "d1", "d2" }

\* the ttl argument of set: omitted, 0, a millisecond, ten minutes
TtlArguments == { None, Some(0), Some(1), Some(DEFAULT_TTL) }

\* line 29: Date.now() > entry.expiresAt
isExpired_inclusive(now, entry) == now >= entry.expiresAt
isExpired(now, entry) == now > entry.expiresAt

\* lines 23-36: what get returns
getResult(map, key, now) ==
    IF key \notin DOMAIN map THEN None
    ELSE IF isExpired(now, map[key]) THEN None
    ELSE Some(map[key].data)

\* lines 23-36: the map after get
mapAfterGet(map, key, now) ==
    IF key \in DOMAIN map /\ isExpired(now, map[key])
    THEN [ k \in DOMAIN map \ { key } |-> map[k] ]
    ELSE map

\* lines 41-44: the map after set; ttl || this.defaultTTL
mapAfterSet(map, key, data, ttl, now) ==
    [ k \in DOMAIN map \cup { key } |->
        IF k = key
        THEN [ data |-> data, expiresAt |-> now + OrDefault(ttl, DEFAULT_TTL) ]
        ELSE map[k] ]

\* lines 49-56: the map after clearExpired
mapAfterClearExpired(map, now) ==
    [ k \in { j \in DOMAIN map : ~isExpired(now, map[j]) } |-> map[k] ]

CacheInit ==
    /\ cacheNow = 0
    /\ cacheTicks = 0
    /\ cacheMap = << >>
    /\ lastSet = << >>
    /\ cacheOp = << >>
    /\ cacheResult = << >>
    /\ MatchIdle
    /\ ArbIdle
    /\ PostIdle
    /\ NormIdle
    /\ TitleIdle
    /\ BatchIdle
    /\ MarketsIdle

CacheSet ==
    /\ \E key \in CacheKeys, data \in CacheData, ttl \in TtlArguments :
          /\ cacheMap' = mapAfterSet(cacheMap, key, data, ttl, cacheNow)
          /\ lastSet' = [ k \in DOMAIN lastSet \cup { key } |->
                            IF k = key THEN cacheMap'[key] ELSE lastSet[k] ]
          /\ cacheOp' = Some([ op |-> "set", key |-> key, ttl |-> ttl,
                               at |-> cacheNow ])
    /\ UNCHANGED << cacheNow, cacheTicks, cacheResult >>
    /\ UNCHANGED outsideCache

CacheGet ==
    /\ \E key \in CacheKeys :
          /\ cacheResult' = getResult(cacheMap, key, cacheNow)
          /\ cacheMap' = mapAfterGet(cacheMap, key, cacheNow)
          /\ cacheOp' = Some([ op |-> "get", key |-> key, ttl |-> None,
                               at |-> cacheNow ])
    /\ UNCHANGED << cacheNow, cacheTicks, lastSet >>
    /\ UNCHANGED outsideCache

CacheClearExpired ==
    /\ cacheMap' = mapAfterClearExpired(cacheMap, cacheNow)
    /\ cacheOp' = Some([ op |-> "clearExpired", key |-> "", ttl |-> None,
                         at |-> cacheNow ])
    /\ UNCHANGED << cacheNow, cacheTicks, lastSet, cacheResult >>
    /\ UNCHANGED outsideCache

CacheClear ==
    /\ cacheMap' = << >>
    /\ lastSet' = << >>
    /\ cacheOp' = Some([ op |-> "clear", key |-> "", ttl |-> None,
                         at |-> cacheNow ])
    /\ UNCHANGED << cacheNow, cacheTicks, cacheResult >>
    /\ UNCHANGED outsideCache

\* time passes between two calls
CacheTick ==
    /\ cacheTicks < MaxTicks
    /\ \E d \in TickSteps : cacheNow' = cacheNow + d
    /\ cacheTicks' = cacheTicks + 1
    /\ UNCHANGED << cacheMap, lastSet, cacheOp, cacheResult >>
    /\ UNCHANGED outsideCache

CacheNext ==
    \/ CacheSet
    \/ CacheGet
    \/ CacheClearExpired
    \/ CacheClear
    \/ CacheTick

SpecCache == CacheInit /\ [][CacheNext]_vars

\* the last call was the given operation
lastOpIs(op) == cacheOp # None /\ cacheOp[1].op = op

\* the data of the most recent set(key) that no clear has followed, if the
\* time t is not after its expiresAt; null otherwise
expectedAt(key, t) ==
    IF key \in DOMAIN lastSet /\ t <= lastSet[key].expiresAt
    THEN Some(lastSet[key].data)
    ELSE None

\* C29: whatever set, get, clearExpired and clear came before, get(key) at
\* time t returns the data of the most recent set(key) if no clear followed
\* that set and t <= its expiresAt, and null otherwise; a get on an expired
\* entry removes the entry, an entry read at exactly expiresAt is returned,
\* and set with ttl = 0 uses the default TTL.
C29_GetReturnsLatestUnexpired ==
    /\ lastOpIs("get") =>
          /\ cacheResult = expectedAt(cacheOp[1].key, cacheOp[1].at)
          /\ cacheResult = None => cacheOp[1].key \notin DOMAIN cacheMap
    /\ lastOpIs("set") /\ cacheOp[1].ttl = Some(0) =>
          cacheMap[cacheOp[1].key].expiresAt = cacheOp[1].at + DEFAULT_TTL

\* an entry set at time 0 with the default TTL, read at exactly its
\* expiresAt and returned
C29_Witness ==
    /\ lastOpIs("get")
    /\ cacheOp[1].key \in DOMAIN lastSet
    /\ cacheOp[1].at = lastSet[cacheOp[1].key].expiresAt
    /\ cacheOp[1].at = DEFAULT_TTL
    /\ cacheResult # None

-----------------------------------------------------------------------------
(* app/api/markets/route.ts: GET /api/markets over marketsCache *)

\* marketsCache.set(cacheKey, normalizedMarkets, 600000)
MARKETS_TTL == 600000

\* the requests of one run
MaxRequests == 3

\* what the two fetches return: nothing, a record of each platform, two
\* platform-A records, and a platform-A record on which the normalizer
\* raises
MarketSnapshots ==
    { [ polymarket |-> << >>, kalshi |-> << >> ],
      [ polymarket |-> << PolyPool[1] >>, kalshi |-> << KalshiPool[1] >> ],
      [ polymarket |-> << PolyPool[1], PolyPool[2] >>, kalshi |-> << KalshiPool[2] >> ],
      [ polymarket |-> << PolyPool[5] >>, kalshi |-> << KalshiPool[1] >> ] }

\* normalizeAllMarkets from record i of a list on: the outcomes of every
\* record, in order; a TypeError of a normalizer leaves the function
RECURSIVE normalizeEach(_, _, _)
normalizeEach(markets, table, i) ==
    IF i > Len(markets) THEN Returned(<< >>)
    ELSE IF table[markets[i]].threw THEN Threw
    ELSE LET rest == normalizeEach(markets, table, i + 1)
         IN  IF rest.threw THEN Threw
             ELSE Returned(table[markets[i]].list \o rest.list)

normalizeAllMarkets(polymarketMarkets_, kalshiMarkets_) ==
    LET polys == normalizeEach(polymarketMarkets_, polymarketOutcomesTable, 1)
        kalshis == normalizeEach(kalshiMarkets_, kalshiOutcomesTable, 1)
    IN  IF polys.threw \/ kalshis.threw THEN Threw
        ELSE Returned(polys.list \o kalshis.list)

\* how many outcomes of a list are of the platform
countOf(markets, platform) ==
    Len(SelectSeq(markets, LAMBDA m : m.platform = platform))

\* a JSON body: an array, or an object with its fields
arrayBody(items) == [ kind |-> "array", items |-> items, fields |-> None ]
objectBody(fields) == [ kind |-> "object", items |-> << >>, fields |-> Some(fields) ]

\* lines 52-66: the body of a response computed from the fetches
freshBody(snapshot, normalizedMarkets, now) ==
    objectBody([ markets         |-> normalizedMarkets,
                 raw             |-> snapshot,
                 count           |-> Len(normalizedMarkets),
                 polymarketCount |-> countOf(normalizedMarkets, "polymarket"),
                 kalshiCount     |-> countOf(normalizedMarkets, "kalshi"),
                 rawCounts       |-> [ polymarket |-> Len(snapshot.polymarket),
                                       kalshi |-> Len(snapshot.kalshi) ],
                 timestamp       |-> now ])

\* line 26: NextResponse.json(cached); the cached value is the array of
\* line 50
cachedBody(cached) == arrayBody(cached)

responseOf(id, forceRefresh, status, fromCache, body) ==
    Some([ id |-> id, forceRefresh |-> forceRefresh, status |-> status,
           fromCache |-> fromCache, body |-> body ])

MarketsInit ==
    /\ marketsRequests = 0
    /\ marketsInFlight = {}
    /\ marketsResponse = << >>
    /\ populatingBody = << >>
    /\ MatchIdle
    /\ ArbIdle
    /\ PostIdle
    /\ NormIdle
    /\ TitleIdle
    /\ BatchIdle
    /\ CacheIdle

\* what the route leaves alone
outsideRoute ==
    << matchVars, arbVars, postVars, normVars, titleVars, batchVars >>

\* lines 15-34: a request arrives; without _t the cache is read and a cached
\* value is the response; otherwise the two fetches start
MarketsRequest ==
    /\ marketsRequests < MaxRequests
    /\ marketsRequests' = marketsRequests + 1
    /\ \E forceRefresh \in BOOLEAN :
          IF forceRefresh
          THEN /\ marketsInFlight' = marketsInFlight \cup
                      { [ id |-> marketsRequests + 1, forceRefresh |-> TRUE ] }
               /\ UNCHANGED << marketsResponse, cacheMap, cacheOp, cacheResult >>
          ELSE /\ cacheResult' = getResult(cacheMap, "markets", cacheNow)
               /\ cacheMap' = mapAfterGet(cacheMap, "markets", cacheNow)
               /\ cacheOp' = Some([ op |-> "get", key |-> "markets",
                                    ttl |-> None, at |-> cacheNow ])
               /\ IF cacheResult' # None
                  THEN \* an array is truthy, the empty one too
                       /\ marketsResponse' =
                              responseOf(marketsRequests + 1, FALSE, 200, TRUE,
                                         cachedBody(cacheResult'[1]))
                       /\ UNCHANGED marketsInFlight
                  ELSE /\ marketsInFlight' = marketsInFlight \cup
                              { [ id |-> marketsRequests + 1,
                                  forceRefresh |-> FALSE ] }
                       /\ UNCHANGED marketsResponse
    /\ UNCHANGED << cacheNow, cacheTicks, lastSet, populatingBody >>
    /\ UNCHANGED outsideRoute

\* lines 31-75: the fetches of a request return; the records are normalized,
\* the outcomes cached and the response sent; a TypeError of a normalizer
\* is caught and answered with status 500
MarketsRespond ==
    /\ \E request \in marketsInFlight, snapshot \in MarketSnapshots :
          LET normalizedMarkets ==
                  normalizeAllMarkets(snapshot.polymarket, snapshot.kalshi)
          IN  /\ marketsInFlight' = marketsInFlight \ { request }
              /\ IF normalizedMarkets.threw
                 THEN /\ marketsResponse' =
                             responseOf(request.id, request.forceRefresh, 500,
                                        FALSE, objectBody([ error |-> "Failed to fetch markets" ]))
                      /\ UNCHANGED << cacheMap, lastSet, cacheOp, populatingBody >>
                 ELSE /\ cacheMap' = mapAfterSet(cacheMap, "markets",
                                         normalizedMarkets.list, Some(MARKETS_TTL),
                                         cacheNow)
                      /\ lastSet' = [ k \in DOMAIN lastSet \cup { "markets" } |->
                                        IF k = "markets" THEN cacheMap'["markets"]
                                        ELSE lastSet[k] ]
                      /\ cacheOp' = Some([ op |-> "set", key |-> "markets",
                                           ttl |-> Some(MARKETS_TTL), at |-> cacheNow ])
                      /\ marketsResponse' =
                             responseOf(request.id, request.forceRefresh, 200, FALSE,
                                        freshBody(snapshot, normalizedMarkets.list,
                                                  cacheNow))
                      /\ populatingBody' = Some(marketsResponse'[1].body)
    /\ UNCHANGED << marketsRequests, cacheNow, cacheTicks, cacheResult >>
    /\ UNCHANGED outsideRoute

MarketsNext ==
    \/ MarketsRequest
    \/ MarketsRespond
    \/ CacheTick

SpecMarkets == MarketsInit /\ [][MarketsNext]_vars

\* C30: a response of GET /api/markets served from marketsCache equals the
\* body of the response of the request that populated the cache (markets,
\* raw, count, polymarketCount, kalshiCount, rawCounts, timestamp); a request
\* with _t never reads the cache and still overwrites the cached entry.
C30_CachedResponseEqualsPopulating ==
    marketsResponse # None =>
        /\ marketsResponse[1].fromCache =>
              /\ populatingBody # None
              /\ marketsResponse[1].body = populatingBody[1]
              /\ ~marketsResponse[1].forceRefresh
        /\ marketsResponse[1].forceRefresh /\ marketsResponse[1].status = 200
           /\ lastOpIs("set") =>
              /\ cacheMap["markets"].data = marketsResponse[1].body.fields[1].markets
              /\ cacheMap["markets"].expiresAt = cacheOp[1].at + MARKETS_TTL

=============================================================================
